---- MODULE Spec2Model ----
(***************************************************************************)
(* Verification model of nix-sweep's analysis core:                        *)
(*   - Profile::apply_markers            (src/src/profiles.rs)             *)
(*   - OrderedChannel put / get / iter   (src/src/ordered_channel.rs)      *)
(*   - dir_size_naive / dir_size_hl_helper / dir_size_considering_hardlinks*)
(*                                        (src/src/files.rs)               *)
(*   - StorePath::closure_helper and the aggregate closure operations      *)
(*                        (src/src/nix/store.rs, src/src/nix/roots.rs)     *)
(* Each subsystem has its own specification over the shared variables.     *)
(***************************************************************************)
EXTENDS Integers, Sequences, FiniteSets, TLC

VARIABLES
    \* ---- Profile / Generation model ----
    generations,    \* Profile.generations: Seq of [number, age, marker], sorted by number
    config,         \* ConfigPreset: keep_min, keep_max, keep_newer, remove_older
    link,           \* generation number the profile's live symlink names (NoLink: unreadable)
    applied,        \* number of apply_markers calls made on this Profile
    \* ---- OrderedChannel ----
    inner,          \* OrderedChannel.inner: the HashMap<usize, T>, as a function on its key set
    mutex,          \* owner of the Mutex guarding inner
    ppc,            \* position of each producer task inside put
    cpc,            \* position of the consumer inside next / get
    iter_counter,   \* OrderedChannelIterator.iter_counter
    total,          \* OrderedChannelIterator.total
    vals,           \* the value v_i producer i deposits
    received,       \* the items the iterator has yielded so far, in order
    \* ---- size walks ----
    fs,             \* the file system the walk runs over
    batch,          \* root paths handed to a size operation
    inodeCache,     \* INODE_CACHE: path -> inode map
    sizeRes,        \* results of the size operations run so far
    \* ---- closure resolver ----
    deps,           \* the store's recorded dependency edges: path -> set of paths
    closureCache,   \* CLOSURE_CACHE: key hash -> closure
    calls,          \* number of `nix-store --query --requisites` invocations so far
    closRes,        \* the last closure operation: op, paths (its input), queried (the
                    \* collaborator was invoked), failed (an invocation failed),
                    \* ok (no error was returned), value (the closure returned or measured)
    \* ---- cleanout and gc commands ----
    profiles,       \* the profiles named on the cleanout command line: generations and link of each
    cleanout,       \* CleanoutCommand::run: position, index of the next profile, dry_run, the answers given
    removed,        \* the delete-generation calls issued so far: <<profile index, generation number>>
    gcRes,          \* the run of GCCommand: its options, what it measured and what it did
    \* ---- bounded Cache ----
    store,          \* Cache.store: Option<HashMap<K, (V, u64)>>; allocated is FALSE for None
    time_counter,   \* Cache.time_counter
    cacheRes,       \* the last Cache operation: op, key, value, what lookup returned, the store it found
    cacheHistory,   \* per key the value of its most recent insert, the keys evicted since, the number of inserts
    \* ---- store path validation ----
    pathArg,        \* the path under validation: its directories, and the kind and characters of its final component
    pathRes,        \* what Store::is_valid_path / StorePath::new answered for it
    \* ---- GC roots ----
    gcroots,        \* what lies under GC_ROOTS_DIR: whether the tree can be walked, and the links found in it
    rootList,       \* the Vec<GCRoot> at hand: the result of the scan, then of filter_roots
    rootRes,        \* the last operation on roots: op, its options, whether it returned Ok, the list it was given
    \* ---- configuration presets ----
    presetArgs,     \* the presets handed to ConfigPreset::override_with_opt: base, and the overriding one if there is one
    overrideRes,    \* what override_with_opt came to: it panicked, or the preset it returned
    \* ---- generation discovery ----
    profileDir,     \* the parent directory of a profile: whether the profile link exists, whether the directory can be read, its entries
    profileRes,     \* what Profile::new came to: Ok with the generation list, Err, or a panic
    \* ---- tidyup-gc-roots ----
    tidy,           \* TidyupGCRootsCommand::run: position, --force, index of the next root, the answers given so far
    unlinked        \* the indices (into the filtered list) of the roots whose link fs::remove_file was called on

markerVars == <<generations, config, link, applied>>
chanVars   == <<inner, mutex, ppc, cpc, iter_counter, total, vals, received>>
sizeVars   == <<fs, batch, inodeCache, sizeRes>>
closVars   == <<deps, closureCache, calls, closRes>>
cmdVars == <<profiles, cleanout, removed, gcRes>>
cacheVars == <<store, time_counter, cacheRes, cacheHistory>>
pathVars == <<pathArg, pathRes>>
rootVars == <<gcroots, rootList, rootRes>>
confVars == <<presetArgs, overrideRes>>
discVars == <<profileDir, profileRes>>
tidyVars == <<tidy, unlinked>>
vars == <<generations, config, link, applied,
          inner, mutex, ppc, cpc, iter_counter, total, vals, received,
          fs, batch, inodeCache, sizeRes,
          deps, closureCache, calls, closRes,
          profiles, cleanout, removed, gcRes,
          store, time_counter, cacheRes, cacheHistory,
          pathArg, pathRes,
          gcroots, rootList, rootRes,
          presetArgs, overrideRes,
          profileDir, profileRes,
          tidy, unlinked>>

\* Option::None for the numeric options of ConfigPreset
None == -1

(***************************************************************************)
(* Bounds of the model                                                     *)
(***************************************************************************)
MaxGens == 3        \* generations per profile
MaxAge == 2         \* largest age / age threshold, in abstract time units
MaxApplies == 2     \* apply_markers calls per Profile object

Range(s) == {s[k] : k \in DOMAIN s}

(***************************************************************************)
(* Idle values of the subsystems a specification does not exercise         *)
(***************************************************************************)
EmptyMap == [k \in {} |-> 0]

MarkerIdle ==
    /\ generations = <<>>
    /\ config = [keep_min |-> None, keep_max |-> None, keep_newer |-> None, remove_older |-> None]
    /\ link = None
    /\ applied = 0

ChanIdle ==
    /\ inner = EmptyMap
    /\ mutex = "free"
    /\ ppc = EmptyMap
    /\ cpc = "idle"
    /\ iter_counter = 0
    /\ total = 0
    /\ vals = EmptyMap
    /\ received = <<>>

SizeIdle ==
    /\ fs = [meta |-> EmptyMap, parent |-> EmptyMap]
    /\ batch = <<>>
    /\ inodeCache = EmptyMap
    /\ sizeRes = [naive |-> EmptyMap, hl |-> EmptyMap, all |-> None]

ClosIdle ==
    /\ deps = EmptyMap
    /\ closureCache = EmptyMap
    /\ calls = 0
    /\ closRes = [op |-> "none", paths |-> <<>>, queried |-> FALSE, failed |-> FALSE,
                  ok |-> TRUE, value |-> {}]

\* GCCommand::new(interactive, dry_run, bigger, quota, modest)
GCCommand(interactive, dry_run, bigger, quota, modest) ==
    [interactive |-> interactive, dry_run |-> dry_run,
     bigger |-> bigger, quota |-> quota, modest |-> modest]

\* no GCCommand has run
NoGCRun ==
    [ran |-> FALSE, self |-> GCCommand(TRUE, FALSE, None, None, FALSE),
     size |-> 0, blkdev_size |-> None, result |-> "none",
     asked |-> FALSE, answer |-> FALSE, collected |-> FALSE, max_freed |-> None]

CmdIdle ==
    /\ profiles = <<>>
    /\ cleanout = [pc |-> "idle", k |-> 0, dry_run |-> FALSE, answers |-> <<>>]
    /\ removed = <<>>
    /\ gcRes = NoGCRun

CacheIdle ==
    /\ store = [allocated |-> FALSE, map |-> EmptyMap]
    /\ time_counter = 0
    /\ cacheRes = [op |-> "none", key |-> 0, value |-> "None", result |-> "None",
                   before |-> [allocated |-> FALSE, map |-> EmptyMap], pass |-> {}]
    /\ cacheHistory = [last |-> EmptyMap, evicted |-> {}, inserts |-> 0, stamps |-> <<>>]

PathIdle ==
    /\ pathArg = [dirs |-> <<>>, kind |-> "normal", chars |-> <<>>]
    /\ pathRes = [op |-> "none", valid |-> FALSE, ok |-> FALSE]

\* no operation on roots has run
NoRootOp ==
    [op |-> "none", ok |-> TRUE, include_missing |-> FALSE, input |-> <<>>,
     include_profiles |-> FALSE, include_current |-> FALSE,
     include_inaccessible |-> FALSE, older |-> None, newer |-> None]

RootIdle ==
    /\ gcroots = [readable |-> TRUE, links |-> <<>>]
    /\ rootList = <<>>
    /\ rootRes = NoRootOp

ConfIdle ==
    /\ presetArgs = <<>>
    /\ overrideRes = <<>>

DiscIdle ==
    /\ profileDir = <<>>
    /\ profileRes = <<>>

TidyIdle ==
    /\ tidy = <<>>
    /\ unlinked = <<>>

(***************************************************************************)
(* Profile::apply_markers                                                  *)
(***************************************************************************)
\* mutant of mark: the marker is flipped
mark_Toggle(g) == [g EXCEPT !.marker = ~g.marker]

\* Generation::mark / Generation::unmark
mark(g) == [g EXCEPT !.marker = TRUE]
unmark(g) == [g EXCEPT !.marker = FALSE]

\* position of the k-th generation (1-based) in iter_mut().rev().enumerate()
RevIndex(gens, k) == Len(gens) - k

\* mutant of MarkOlder: the comparison reversed
MarkOlder_Reversed(gens, older) ==
    IF older = None THEN gens
    ELSE [k \in DOMAIN gens |-> IF gens[k].age <= older THEN mark(gens[k]) ELSE gens[k]]

\* "mark older generations": generation.age() >= older
MarkOlder(gens, older) ==
    IF older = None THEN gens
    ELSE [k \in DOMAIN gens |-> IF gens[k].age >= older THEN mark(gens[k]) ELSE gens[k]]

\* "mark superfluous generations": i >= max in reverse enumeration
MarkSuperfluous(gens, max) ==
    IF max = None THEN gens
    ELSE [k \in DOMAIN gens |-> IF RevIndex(gens, k) >= max THEN mark(gens[k]) ELSE gens[k]]

\* "unmark newer generations": generation.age() < newer
UnmarkNewer(gens, newer) ==
    IF newer = None THEN gens
    ELSE [k \in DOMAIN gens |-> IF gens[k].age < newer THEN unmark(gens[k]) ELSE gens[k]]

\* mutant of UnmarkKept: generations outside the kept ones get marked
UnmarkKept_MarksRest(gens, min) ==
    IF min = None THEN gens
    ELSE [k \in DOMAIN gens |-> IF RevIndex(gens, k) < min THEN unmark(gens[k]) ELSE mark(gens[k])]

\* mutant of UnmarkKept: the .rev() is missing, the oldest generations are kept
UnmarkKept_Forward(gens, min) ==
    IF min = None THEN gens
    ELSE [k \in DOMAIN gens |-> IF k - 1 < min THEN unmark(gens[k]) ELSE gens[k]]

\* "unmark kept generations": i < min in reverse enumeration
UnmarkKept(gens, min) ==
    IF min = None THEN gens
    ELSE [k \in DOMAIN gens |-> IF RevIndex(gens, k) < min THEN unmark(gens[k]) ELSE gens[k]]

\* mutant of UnmarkNewest: the safety floor is missing
UnmarkNewest_Missing(gens) == gens

\* "always unmark newest generation": self.generations.last_mut()
UnmarkNewest(gens) ==
    IF Len(gens) = 0 THEN gens
    ELSE [gens EXCEPT ![Len(gens)] = unmark(gens[Len(gens)])]

\* Profile::active_generation_mut: index of the first generation whose path is the
\* one the live symlink names; 0 when read_link fails or no generation matches.
\* A generation's path is <parent>/<name>-<number>-link, so paths are compared by number.
active_generation_mut(gens, lnk) ==
    IF lnk = None \/ ~(\E k \in DOMAIN gens : gens[k].number = lnk) THEN 0
    ELSE CHOOSE k \in DOMAIN gens :
            /\ gens[k].number = lnk
            /\ \A j \in DOMAIN gens : gens[j].number = lnk => k <= j

\* "always unmark currently active generation"
UnmarkActive(gens, lnk) ==
    LET a == active_generation_mut(gens, lnk)
    IN  IF a = 0 THEN gens ELSE [gens EXCEPT ![a] = unmark(gens[a])]

\* mutant of apply_markers: the negative criteria run after the positive ones
apply_markers_NegativeLast(gens, cfg, lnk) ==
    UnmarkActive(
        UnmarkNewest(
            MarkSuperfluous(
                MarkOlder(
                    UnmarkKept(
                        UnmarkNewer(gens, cfg.keep_newer),
                        cfg.keep_min),
                    cfg.remove_older),
                cfg.keep_max)),
        lnk)

apply_markers(gens, cfg, lnk) ==
    UnmarkActive(
        UnmarkNewest(
            UnmarkKept(
                UnmarkNewer(
                    MarkSuperfluous(
                        MarkOlder(gens, cfg.remove_older),
                        cfg.keep_max),
                    cfg.keep_newer),
                cfg.keep_min)),
        lnk)

\* one call of profile.apply_markers(&config)
ApplyMarkers ==
    /\ applied < MaxApplies
    /\ generations' = apply_markers(generations, config, link)
    /\ applied' = applied + 1
    /\ UNCHANGED <<config, link>>
    /\ UNCHANGED <<chanVars, sizeVars, closVars, cmdVars, cacheVars, pathVars, rootVars, confVars, discVars, tidyVars>>

\* Generation::new_from_direntry: a freshly discovered generation is unmarked
NewGeneration(n, a) == [number |-> n, age |-> a, marker |-> FALSE]

\* strictly increasing number sequences of length n over 1..m (Profile::new sorts by number)
RECURSIVE IncSeqs(_, _)
IncSeqs(n, m) ==
    IF n = 0 THEN {<<>>}
    ELSE IF m < n THEN {}
    ELSE IncSeqs(n, m - 1) \cup {Append(s, m) : s \in IncSeqs(n - 1, m - 1)}

GenNumbers == 1..(MaxGens + 1)
Ages == 0..MaxAge
OptCount == {None} \cup (0..MaxGens)
OptAge == {None} \cup (0..MaxAge)

ConfigPresets ==
    [keep_min : OptCount, keep_max : OptCount, keep_newer : OptAge, remove_older : OptAge]

\* Profile::new: the discovered generations, sorted, all unmarked
InitMarkers ==
    /\ \E n \in 0..MaxGens :
         \E nums \in IncSeqs(n, MaxGens + 1) :
           \E ages \in [1..n -> Ages] :
             generations = [k \in 1..n |-> NewGeneration(nums[k], ages[k])]
    /\ config \in ConfigPresets
    /\ link \in {None} \cup GenNumbers
    /\ applied = 0
    /\ ChanIdle /\ SizeIdle /\ ClosIdle /\ CmdIdle /\ CacheIdle /\ PathIdle /\ RootIdle /\ ConfIdle /\ DiscIdle /\ TidyIdle

NextMarkers == ApplyMarkers

SpecMarkers == InitMarkers /\ [][NextMarkers]_vars

(***************************************************************************)
(* Observations on the marker state                                        *)
(***************************************************************************)
Marked(gens) == {gens[k].number : k \in {j \in DOMAIN gens : gens[j].marker}}
Numbers(gens) == {gens[k].number : k \in DOMAIN gens}
Fresh(gens) == [k \in DOMAIN gens |-> unmark(gens[k])]


\* the generation the live symlink resolves to, as an index into gens (0: none)
ActiveIndex(gens, lnk) ==
    IF \E k \in DOMAIN gens : gens[k].number = lnk
    THEN CHOOSE k \in DOMAIN gens : gens[k].number = lnk
    ELSE 0

(***************************************************************************)
(* The worked example of the retention policy: generations 1..10,          *)
(* 1..7 older than 30 days, 8..10 not, generation 10 active,               *)
(* keep_min = 2, remove_older = 30 days.                                   *)
(***************************************************************************)
ExampleOldAges == {31, 45}
ExampleNewAges == {0, 29}

InitExample ==
    /\ \E old \in [1..7 -> ExampleOldAges] :
         \E new \in [8..10 -> ExampleNewAges] :
           generations = [k \in 1..10 |->
                            NewGeneration(k, IF k <= 7 THEN old[k] ELSE new[k])]
    /\ config = [keep_min |-> 2, keep_max |-> None, keep_newer |-> None, remove_older |-> 30]
    /\ link = 10
    /\ applied = 0
    /\ ChanIdle /\ SizeIdle /\ ClosIdle /\ CmdIdle /\ CacheIdle /\ PathIdle /\ RootIdle /\ ConfIdle /\ DiscIdle /\ TidyIdle

SpecExample == InitExample /\ [][NextMarkers]_vars

(***************************************************************************)
(* Claims on the retention marking                                         *)
(***************************************************************************)

\* C1: after apply_markers, whatever the configuration, the highest-numbered
\* generation is not marked and the generation the live symlink resolves to
\* is not marked.
C1_NewestAndActiveNeverMarked ==
    applied >= 1 =>
        /\ Len(generations) > 0 => ~generations[Len(generations)].marker
        /\ ActiveIndex(generations, link) # 0
              => ~generations[ActiveIndex(generations, link)].marker

\* a configuration that marks every generation (keep_max = 0) has been applied to
\* a profile whose active generation is an older one; some generation got marked
C1_Witness ==
    /\ applied >= 1
    /\ config.keep_max = 0
    /\ config.keep_min = None /\ config.keep_newer = None
    /\ Len(generations) = MaxGens
    /\ ActiveIndex(generations, link) \notin {0, Len(generations)}
    /\ Marked(generations) # {}

\* C2 (as stated): in the worked example apply_markers leaves exactly {1,2,3,4,5}
\* marked.
C2_ExampleMarksOneToFive ==
    applied >= 1 => Marked(generations) = 1..5

\* C2 (amended): in the worked example apply_markers leaves exactly {1,...,7}
\* marked: keep_min = 2 un-marks the two highest-numbered generations (9 and 10),
\* which remove_older had not marked, so 6 and 7 stay marked.
C2_ExampleMarksOneToSeven ==
    applied >= 1 => Marked(generations) = 1..7

\* the example profile after apply_markers
C2_Witness ==
    /\ applied = 1
    /\ Numbers(generations) = 1..10
    /\ \A k \in 1..7 : generations[k].age > 30
    /\ \A k \in 8..10 : generations[k].age < 30
    /\ config.keep_min = 2 /\ config.remove_older = 30
    /\ link = 10
    /\ generations[6].marker /\ generations[7].marker

\* C3: enabling keep_min never marks an additional generation: the set marked
\* with keep_min = N is a subset of the set marked, for the same generation list
\* and the same other options, with keep_min unset.
C3_KeepMinMonotonic ==
    applied >= 1 =>
        Marked(generations) \subseteq
            Marked(apply_markers(Fresh(generations), [config EXCEPT !.keep_min = None], link))

\* keep_min is set and un-marked a generation that stays marked without it
C3_Witness ==
    /\ applied >= 1
    /\ config.keep_min # None
    /\ Marked(generations) #
            Marked(apply_markers(Fresh(generations), [config EXCEPT !.keep_min = None], link))

\* a generation that keep_newer or keep_min protects
Protected(gens, cfg, k) ==
    \/ cfg.keep_newer # None /\ gens[k].age < cfg.keep_newer
    \/ cfg.keep_min # None /\ RevIndex(gens, k) < cfg.keep_min

\* a generation that remove_older or keep_max marks
Condemned(gens, cfg, k) ==
    \/ cfg.remove_older # None /\ gens[k].age >= cfg.remove_older
    \/ cfg.keep_max # None /\ RevIndex(gens, k) >= cfg.keep_max

\* C4: positive criteria win: a generation younger than keep_newer, or among the
\* keep_min highest-numbered ones, is not marked after apply_markers, even when
\* remove_older or keep_max marks it.
C4_PositiveCriteriaWin ==
    applied >= 1 =>
        \A k \in DOMAIN generations :
            Protected(generations, config, k) => ~generations[k].marker

\* a generation that is neither the newest nor the active one, is marked by a
\* negative criterion and protected by a positive one, after apply_markers
C4_Witness ==
    /\ applied >= 1
    /\ \E k \in DOMAIN generations :
          /\ k # Len(generations)
          /\ k # ActiveIndex(generations, link)
          /\ Condemned(generations, config, k)
          /\ Protected(generations, config, k)
          /\ ~generations[k].marker

(***************************************************************************)
(* OrderedChannel: producers put(i, v_i), one consumer iterates iter(n)     *)
(***************************************************************************)
MaxItems == 3       \* number of indices / producer tasks

Values == {"x", "y"}
Producers == 0..(total - 1)

\* HashMap::insert / HashMap::remove on inner
MapInsert(m, k, v) == [j \in DOMAIN m \cup {k} |-> IF j = k THEN v ELSE m[j]]
\* mutant of MapRemove: the entry stays in the map
MapRemove_Keeps(m, k) == m

MapRemove(m, k) == [j \in DOMAIN m \ {k} |-> m[j]]

\* put: let mut inner = self.inner.lock().unwrap();
PutLock(i) ==
    /\ ppc[i] = "start"
    /\ mutex = "free"
    /\ mutex' = "producer"
    /\ ppc' = [ppc EXCEPT ![i] = "locked"]
    /\ UNCHANGED <<inner, cpc, iter_counter, total, vals, received>>
    /\ UNCHANGED <<markerVars, sizeVars, closVars, cmdVars, cacheVars, pathVars, rootVars, confVars, discVars, tidyVars>>

\* put: inner.insert(i, object);
PutInsert(i) ==
    /\ ppc[i] = "locked"
    /\ inner' = MapInsert(inner, i, vals[i])
    /\ ppc' = [ppc EXCEPT ![i] = "inserted"]
    /\ UNCHANGED <<mutex, cpc, iter_counter, total, vals, received>>
    /\ UNCHANGED <<markerVars, sizeVars, closVars, cmdVars, cacheVars, pathVars, rootVars, confVars, discVars, tidyVars>>

\* mutant of PutNotify: the notification is missing
PutNotify_Missing(i) ==
    /\ ppc[i] = "inserted"
    /\ ppc' = [ppc EXCEPT ![i] = "notified"]
    /\ UNCHANGED <<inner, mutex, cpc, iter_counter, total, vals, received>>
    /\ UNCHANGED <<markerVars, sizeVars, closVars, cmdVars, cacheVars, pathVars, rootVars, confVars, discVars, tidyVars>>

\* put: self.cond.notify_all(); a consumer blocked in cond.wait is woken
PutNotify(i) ==
    /\ ppc[i] = "inserted"
    /\ cpc' = IF cpc = "waiting" THEN "woken" ELSE cpc
    /\ ppc' = [ppc EXCEPT ![i] = "notified"]
    /\ UNCHANGED <<inner, mutex, iter_counter, total, vals, received>>
    /\ UNCHANGED <<markerVars, sizeVars, closVars, cmdVars, cacheVars, pathVars, rootVars, confVars, discVars, tidyVars>>

\* put: the MutexGuard is dropped at the end of put
PutUnlock(i) ==
    /\ ppc[i] = "notified"
    /\ mutex' = "free"
    /\ ppc' = [ppc EXCEPT ![i] = "done"]
    /\ UNCHANGED <<inner, cpc, iter_counter, total, vals, received>>
    /\ UNCHANGED <<markerVars, sizeVars, closVars, cmdVars, cacheVars, pathVars, rootVars, confVars, discVars, tidyVars>>

\* mutant of GetIndex: the iterator asks for its counter after the increment
GetIndex_OffByOne(counter) == counter

\* next: self.channel.get(self.iter_counter - 1), after iter_counter += 1
GetIndex(counter) == counter - 1

\* OrderedChannelIterator::next up to the call of get
IterNext ==
    /\ cpc = "next"
    /\ IF iter_counter = total
       THEN /\ cpc' = "done"
            /\ UNCHANGED iter_counter
       ELSE /\ iter_counter' = iter_counter + 1
            /\ cpc' = "lock"
    /\ UNCHANGED <<inner, mutex, ppc, total, vals, received>>
    /\ UNCHANGED <<markerVars, sizeVars, closVars, cmdVars, cacheVars, pathVars, rootVars, confVars, discVars, tidyVars>>

\* get: let mut inner = self.inner.lock().unwrap();
GetLock ==
    /\ cpc = "lock"
    /\ mutex = "free"
    /\ mutex' = "consumer"
    /\ cpc' = "check"
    /\ UNCHANGED <<inner, ppc, iter_counter, total, vals, received>>
    /\ UNCHANGED <<markerVars, sizeVars, closVars, cmdVars, cacheVars, pathVars, rootVars, confVars, discVars, tidyVars>>

\* get: match inner.remove(&i) { Some(item) => return item,
\*                                None => inner = self.cond.wait(inner).unwrap() }
\* cond.wait releases the mutex and joins the wait set atomically
GetCheck ==
    /\ cpc = "check"
    /\ LET i == GetIndex(iter_counter)
       IN  IF i \in DOMAIN inner
           THEN /\ received' = Append(received, inner[i])
                /\ inner' = MapRemove(inner, i)
                /\ mutex' = "free"
                /\ cpc' = "next"
           ELSE /\ mutex' = "free"
                /\ cpc' = "waiting"
                /\ UNCHANGED <<inner, received>>
    /\ UNCHANGED <<ppc, iter_counter, total, vals>>
    /\ UNCHANGED <<markerVars, sizeVars, closVars, cmdVars, cacheVars, pathVars, rootVars, confVars, discVars, tidyVars>>

\* Condvar::wait may return without a notification
SpuriousWake ==
    /\ cpc = "waiting"
    /\ cpc' = "woken"
    /\ UNCHANGED <<inner, mutex, ppc, iter_counter, total, vals, received>>
    /\ UNCHANGED <<markerVars, sizeVars, closVars, cmdVars, cacheVars, pathVars, rootVars, confVars, discVars, tidyVars>>

\* cond.wait re-acquires the mutex before it returns; the loop checks again
GetWake ==
    /\ cpc = "woken"
    /\ mutex = "free"
    /\ mutex' = "consumer"
    /\ cpc' = "check"
    /\ UNCHANGED <<inner, ppc, iter_counter, total, vals, received>>
    /\ UNCHANGED <<markerVars, sizeVars, closVars, cmdVars, cacheVars, pathVars, rootVars, confVars, discVars, tidyVars>>

\* OrderedChannel::new, iter(total), and one producer task per index
InitChannel ==
    /\ total \in 0..MaxItems
    /\ vals \in [0..(total - 1) -> Values]
    /\ inner = EmptyMap
    /\ mutex = "free"
    /\ ppc = [i \in 0..(total - 1) |-> "start"]
    /\ cpc = "next"
    /\ iter_counter = 0
    /\ received = <<>>
    /\ MarkerIdle /\ SizeIdle /\ ClosIdle /\ CmdIdle /\ CacheIdle /\ PathIdle /\ RootIdle /\ ConfIdle /\ DiscIdle /\ TidyIdle

Put ==
    \E i \in Producers : PutLock(i) \/ PutInsert(i) \/ PutNotify(i) \/ PutUnlock(i)

NextChannel ==
    \/ Put
    \/ IterNext
    \/ GetLock
    \/ GetCheck
    \/ SpuriousWake
    \/ GetWake

SpecChannel == InitChannel /\ [][NextChannel]_vars

\* Fair scheduling: every thread that can take a step eventually takes it, and a
\* thread that can acquire the mutex again and again eventually acquires it.
\* Nothing obliges Condvar::wait to return spuriously.
ChannelFairness ==
    /\ \A i \in 0..(MaxItems - 1) :
          /\ SF_vars(i \in Producers /\ PutLock(i))
          /\ WF_vars(i \in Producers /\ PutInsert(i))
          /\ WF_vars(i \in Producers /\ PutNotify(i))
          /\ WF_vars(i \in Producers /\ PutUnlock(i))
    /\ WF_vars(IterNext)
    /\ SF_vars(GetLock)
    /\ WF_vars(GetCheck)
    /\ SF_vars(GetWake)

FairSpecChannel == SpecChannel /\ ChannelFairness

\* the sequence v_0, ..., v_(n-1)
InOrder(n) == [k \in 1..n |-> vals[k - 1]]

\* C5: whatever the interleaving of the producers, the consumer iterating iter(n)
\* receives v_0, v_1, ... in ascending index order, and it has received exactly
\* n items when next returns None.
C5_AscendingOrderExactlyN ==
    /\ Len(received) <= total
    /\ received = InOrder(Len(received))
    /\ cpc = "done" => Len(received) = total

\* iteration finished although the last index was deposited first and the values differ
C5_Witness ==
    /\ cpc = "done"
    /\ total = MaxItems
    /\ received = InOrder(total)
    /\ received[1] # received[total]

\* the consumer is inside get(i)
InGet(i) == cpc \in {"lock", "check", "waiting", "woken"} /\ GetIndex(iter_counter) = i

\* C6: under fair scheduling every get(i) returns once index i has been
\* deposited, and the whole iteration completes: no wake-up is lost.
C6_GetAndIterComplete ==
    /\ \A i \in 0..(MaxItems - 1) : InGet(i) ~> (Len(received) > i)
    /\ <>(cpc = "done")

\* the consumer blocked in cond.wait for index i and the producer of i has just
\* notified it, still holding the mutex
C6_Witness ==
    /\ cpc = "woken"
    /\ GetIndex(iter_counter) \in DOMAIN inner
    /\ \E i \in Producers : i = GetIndex(iter_counter) /\ ppc[i] = "notified"

(***************************************************************************)
(* Size walks over a file system                                           *)
(***************************************************************************)
MaxNodes == 3       \* paths in the file system
MaxBatch == 2       \* root paths handed to one size operation

\* what fs::symlink_metadata(path) / fs::read_dir(path) answer for a path:
\*   res      "ok" | "err"     symlink_metadata succeeds or fails
\*   ftype    "dir" | "file" | "other"   (is_dir / is_file / neither, e.g. a symlink)
\*   dev, ino metadata.dev(), metadata.ino()
\*   readable read_dir succeeds (directories)
MetaErr == [res |-> "err", ftype |-> "other", dev |-> 0, ino |-> 0, readable |-> FALSE]
MetaOther == [res |-> "ok", ftype |-> "other", dev |-> 0, ino |-> 0, readable |-> FALSE]
MetaDir(r) == [res |-> "ok", ftype |-> "dir", dev |-> 0, ino |-> 0, readable |-> r]
MetaFile(d, i) == [res |-> "ok", ftype |-> "file", dev |-> d, ino |-> i, readable |-> FALSE]

\* the inodes of regular files: (device id, inode number)
InoKeys == {<<1, 1>>, <<1, 2>>, <<2, 1>>}

\* metadata.len() of an inode; hardlinked names share it. One inode is empty, and the
\* lengths are chosen so that a sum tells which inodes were counted, and how often.
InodeLen(key) ==
    CASE key = <<1, 1>> -> 1
      [] key = <<1, 2>> -> 0
      [] key = <<2, 1>> -> 3

Metas == {MetaErr, MetaOther, MetaDir(TRUE), MetaDir(FALSE)}
            \cup {MetaFile(k[1], k[2]) : k \in InoKeys}

\* the entries read_dir(p) lists
Children(f, p) == {c \in DOMAIN f.parent : f.parent[c] = p}

\* the file systems: every path but a top-level one lies in a directory
FileSystems ==
    UNION {
        {f \in [meta : [1..n -> Metas], parent : [1..n -> 0..(n - 1)]] :
            \A k \in 1..n :
                /\ f.parent[k] < k
                /\ f.parent[k] # 0 => f.meta[f.parent[k]].ftype = "dir"}
        : n \in 0..MaxNodes}

\* HashMap::extend: entries of b replace those of a
MapExtend(a, b) ==
    [k \in DOMAIN a \cup DOMAIN b |-> IF k \in DOMAIN b THEN b[k] ELSE a[k]]

\* inodes.values().sum()
RECURSIVE SumValues(_)
SumValues(m) ==
    IF DOMAIN m = {} THEN 0
    ELSE LET k == CHOOSE x \in DOMAIN m : TRUE
         IN  m[k] + SumValues(MapRemove(m, k))

\* the paths of a set in read_dir order (ascending here; no result depends on it)
RECURSIVE SetToSeq(_)
SetToSeq(S) ==
    IF S = {} THEN <<>>
    ELSE LET m == CHOOSE x \in S : \A y \in S : x <= y
         IN  <<m>> \o SetToSeq(S \ {m})

\* dir_size_hl_helper: the inode map of the regular files reachable from path
RECURSIVE dir_size_hl_helper(_, _)
RECURSIVE HlExtendAll(_, _, _)
HlExtendAll(f, paths, acc) ==
    IF paths = <<>> THEN acc
    ELSE HlExtendAll(f, Tail(paths), MapExtend(acc, dir_size_hl_helper(f, Head(paths))))

dir_size_hl_helper(f, path) ==
    LET metadata == f.meta[path]
    IN  IF metadata.res = "err" THEN EmptyMap
        ELSE IF metadata.ftype = "dir"
             THEN IF ~metadata.readable THEN EmptyMap
                  ELSE HlExtendAll(f, SetToSeq(Children(f, path)), EmptyMap)
        ELSE IF metadata.ftype = "file"
             THEN [k \in {<<metadata.dev, metadata.ino>>} |-> InodeLen(k)]
        ELSE EmptyMap

\* dir_size_naive, TaskType::Dir(Err(_)) => return 0
NaiveDirFailed(queue, size) == [again |-> FALSE, queue |-> <<>>, size |-> 0]

\* dir_size_naive: one turn of `while let Some(task) = task_queue.pop_front()`
NaiveStep(f, queue, size) ==
    LET task == Head(queue)
        rest == Tail(queue)
        metadata == f.meta[task.path]
    IN  IF task.type = "File"
        THEN IF metadata.res = "err" THEN [again |-> TRUE, queue |-> rest, size |-> size]
             ELSE IF metadata.ftype = "dir"
                  THEN [again |-> TRUE,
                        queue |-> Append(rest, [type |-> "Dir", path |-> task.path]),
                        size |-> size]
             ELSE IF metadata.ftype = "file"
                  THEN [again |-> TRUE, queue |-> rest,
                        size |-> size + InodeLen(<<metadata.dev, metadata.ino>>)]
             ELSE [again |-> TRUE, queue |-> rest, size |-> size]
        ELSE IF ~metadata.readable THEN NaiveDirFailed(rest, size)
             ELSE LET paths == SetToSeq(Children(f, task.path))
                  IN  [again |-> TRUE,
                       queue |-> rest \o [k \in 1..Len(paths) |->
                                             [type |-> "File", path |-> paths[k]]],
                       size |-> size]

RECURSIVE NaiveLoop(_, _, _)
NaiveLoop(f, queue, size) ==
    IF queue = <<>> THEN size
    ELSE LET r == NaiveStep(f, queue, size)
         IN  IF r.again THEN NaiveLoop(f, r.queue, r.size) ELSE r.size

\* dir_size_naive
dir_size_naive(f, path) == NaiveLoop(f, <<[type |-> "File", path |-> path]>>, 0)

\* Cache::lookup on INODE_CACHE
CacheHit(cache, key) == key \in DOMAIN cache

\* Cache::insert_inline: store the value under the key and hand it back
insert_inline(cache, key, value) == [cache |-> MapInsert(cache, key, value), value |-> value]

\* dir_size_considering_hardlinks: the inode map of path, from the cache or computed
HlInodes(f, cache, path) ==
    IF CacheHit(cache, path) THEN [cache |-> cache, value |-> cache[path]]
    ELSE insert_inline(cache, path, dir_size_hl_helper(f, path))

\* dir_size_considering_hardlinks_all: `return 1;` is its first statement
dir_size_considering_hardlinks_all(f, paths) == 1

\* a call of dir_size_naive(path) on one of the paths under study
DirSizeNaive ==
    /\ \E k \in DOMAIN batch :
          /\ batch[k] \notin DOMAIN sizeRes.naive
          /\ sizeRes' = [sizeRes EXCEPT
                            !.naive = MapInsert(@, batch[k], dir_size_naive(fs, batch[k]))]
    /\ UNCHANGED <<fs, batch, inodeCache>>
    /\ UNCHANGED <<markerVars, chanVars, closVars, cmdVars, cacheVars, pathVars, rootVars, confVars, discVars, tidyVars>>

\* a call of dir_size_considering_hardlinks(&path) on one of the paths under study
DirSizeConsideringHardlinks ==
    /\ \E k \in DOMAIN batch :
          /\ batch[k] \notin DOMAIN sizeRes.hl
          /\ LET r == HlInodes(fs, inodeCache, batch[k])
             IN  /\ inodeCache' = r.cache
                 /\ sizeRes' = [sizeRes EXCEPT
                                   !.hl = MapInsert(@, batch[k], SumValues(r.value))]
    /\ UNCHANGED <<fs, batch>>
    /\ UNCHANGED <<markerVars, chanVars, closVars, cmdVars, cacheVars, pathVars, rootVars, confVars, discVars, tidyVars>>

\* a call of dir_size_considering_hardlinks_all(&paths) on the batch
DirSizeConsideringHardlinksAll ==
    /\ sizeRes.all = None
    /\ sizeRes' = [sizeRes EXCEPT !.all = dir_size_considering_hardlinks_all(fs, batch)]
    /\ UNCHANGED <<fs, batch, inodeCache>>
    /\ UNCHANGED <<markerVars, chanVars, closVars, cmdVars, cacheVars, pathVars, rootVars, confVars, discVars, tidyVars>>

\* the batches of distinct paths of a file system, in ascending order
Batches(f) ==
    {SetToSeq(S) : S \in {T \in SUBSET DOMAIN f.meta : Cardinality(T) <= MaxBatch}}

InitSize ==
    /\ fs \in FileSystems
    /\ batch \in Batches(fs)
    /\ inodeCache = EmptyMap
    /\ sizeRes = [naive |-> EmptyMap, hl |-> EmptyMap, all |-> None]
    /\ MarkerIdle /\ ChanIdle /\ ClosIdle /\ CmdIdle /\ CacheIdle /\ PathIdle /\ RootIdle /\ ConfIdle /\ DiscIdle /\ TidyIdle

NextSize ==
    \/ DirSizeNaive
    \/ DirSizeConsideringHardlinks
    \/ DirSizeConsideringHardlinksAll

SpecSize == InitSize /\ [][NextSize]_vars

(***************************************************************************)
(* Claims on the size walks                                                *)
(***************************************************************************)
\* the ancestors of a path, the path included
RECURSIVE Ancestors(_, _)
Ancestors(f, p) == IF p = 0 THEN {} ELSE {p} \cup Ancestors(f, f.parent[p])

\* the regular files reachable from a set of root paths
FilesUnder(f, roots) ==
    {p \in DOMAIN f.meta :
        /\ f.meta[p].res = "ok" /\ f.meta[p].ftype = "file"
        /\ Ancestors(f, p) \cap roots # {}}

InoKeyOf(f, p) == <<f.meta[p].dev, f.meta[p].ino>>

\* the sum of the sizes of the distinct inodes of a set of files
RECURSIVE SumLen(_)
SumLen(keys) ==
    IF keys = {} THEN 0
    ELSE LET k == CHOOSE x \in keys : TRUE IN InodeLen(k) + SumLen(keys \ {k})

DistinctInodeSum(f, roots) == SumLen({InoKeyOf(f, p) : p \in FilesUnder(f, roots)})

\* C7: dir_size_considering_hardlinks_all returns, for any batch of root paths,
\* the sum of the sizes of the distinct (device, inode) pairs of the regular files
\* reachable from the batch: every inode counts exactly once.
C7_BatchCountsEachInodeOnce ==
    sizeRes.all # None => sizeRes.all = DistinctInodeSum(fs, Range(batch))

\* C8: for every tree, dir_size_naive(tree) >= dir_size_considering_hardlinks(tree).
C8_NaiveAtLeastDedup ==
    \A p \in DOMAIN sizeRes.naive \cap DOMAIN sizeRes.hl :
        sizeRes.naive[p] >= sizeRes.hl[p]

\* C8, second clause: the two sizes are equal exactly when no two regular files
\* of the tree share a (device, inode) pair.
C8_EqualIffNoSharedInode ==
    \A p \in DOMAIN sizeRes.naive \cap DOMAIN sizeRes.hl :
        (sizeRes.naive[p] = sizeRes.hl[p]) <=>
            (\A a, b \in FilesUnder(fs, {p}) :
                InoKeyOf(fs, a) = InoKeyOf(fs, b) => a = b)

(***************************************************************************)
(* Closure resolver                                                        *)
(***************************************************************************)
MaxPaths == 2       \* store paths
MaxSeeds == 3       \* seeds handed to StorePath::full_closure
MaxRoots == 2       \* roots handed to GCRoot::full_closure
MaxCalls == 2       \* collaborator invocations after which no new operation starts
CLOSURE_LOOKUP_CHUNK_SIZE == 2      \* stands for the 1024 of store.rs, scaled to the model

StorePaths == 1..MaxPaths

\* what running `nix-store --query --requisites` can come to
Outcomes == {"ok", "spawn_err", "exit_err", "utf8_err"}

\* the outcomes drawn for the queries of an aggregate operation; closure_helper
\* treats the three failures alike, one of them stands for all
AggregateOutcomes == {"ok", "exit_err"}

\* the answer of the collaborator: the seeds and everything reachable from them
RECURSIVE Requisites(_, _)
Requisites(d, seeds) ==
    LET next == seeds \cup UNION {d[p] : p \in seeds}
    IN  IF next = seeds THEN seeds ELSE Requisites(d, next)

\* key_hash: paths.hash(&mut hasher); hasher.finish(). A slice hashes its length and
\* then its elements in order; the 64-bit mixing is scaled to 16 bits.
RECURSIVE HashWords(_, _)
HashWords(h, words) ==
    IF words = <<>> THEN h
    ELSE HashWords((h * 31 + Head(words)) % 65536, Tail(words))

KeyHash(paths) == HashWords(0, <<Len(paths)>> \o paths)

\* Cache::lookup
lookup(cache, key) == IF key \in DOMAIN cache THEN {cache[key]} ELSE {}

\* Cache::insert, below the size limit
insert(cache, key, value) == MapInsert(cache, key, value)

\* mutant of closure_helper: the result of a successful query is not stored
closure_helper_NoInsert(cache, paths, outcome) ==
    LET key_hash == KeyHash(paths)
    IN  IF lookup(cache, key_hash) # {}
        THEN [cache |-> cache, queried |-> FALSE, ok |-> TRUE, value |-> cache[key_hash]]
        ELSE IF outcome # "ok"
             THEN [cache |-> cache, queried |-> TRUE, ok |-> FALSE, value |-> {}]
        ELSE [cache |-> cache, queried |-> TRUE, ok |-> TRUE,
              value |-> Requisites(deps, Range(paths))]

\* mutant of closure_helper: a failed query is taken for an empty closure and cached
closure_helper_EmptyOnFailure(cache, paths, outcome) ==
    LET key_hash == KeyHash(paths)
    IN  IF lookup(cache, key_hash) # {}
        THEN [cache |-> cache, queried |-> FALSE, ok |-> TRUE, value |-> cache[key_hash]]
        ELSE LET closure == IF outcome = "ok" THEN Requisites(deps, Range(paths)) ELSE {}
             IN  [cache |-> insert(cache, key_hash, closure), queried |-> TRUE,
                  ok |-> TRUE, value |-> closure]

\* StorePath::closure_helper
closure_helper(cache, paths, outcome) ==
    LET key_hash == KeyHash(paths)
    IN  IF lookup(cache, key_hash) # {}
        THEN [cache |-> cache, queried |-> FALSE, ok |-> TRUE, value |-> cache[key_hash]]
        ELSE IF outcome = "spawn_err"       \* .output().map_err(|e| e.to_string())?
             THEN [cache |-> cache, queried |-> TRUE, ok |-> FALSE, value |-> {}]
        ELSE IF outcome = "exit_err"        \* !output.status.success()
             THEN [cache |-> cache, queried |-> TRUE, ok |-> FALSE, value |-> {}]
        ELSE IF outcome = "utf8_err"        \* String::from_utf8(output.stdout) fails
             THEN [cache |-> cache, queried |-> TRUE, ok |-> FALSE, value |-> {}]
        ELSE LET closure == Requisites(deps, Range(paths))
             IN  [cache |-> insert(cache, key_hash, closure), queried |-> TRUE,
                  ok |-> TRUE, value |-> closure]

\* mutant of chunks: only the first chunk is kept
chunks_FirstOnly(paths, n) ==
    IF Len(paths) = 0 THEN <<>>
    ELSE IF Len(paths) <= n THEN <<paths>>
    ELSE <<SubSeq(paths, 1, n)>>

\* paths.chunks(CLOSURE_LOOKUP_CHUNK_SIZE)
RECURSIVE chunks(_, _)
chunks(paths, n) ==
    IF Len(paths) = 0 THEN <<>>
    ELSE IF Len(paths) <= n THEN <<paths>>
    ELSE <<SubSeq(paths, 1, n)>> \o chunks(SubSeq(paths, n + 1, Len(paths)), n)

\* .flat_map(|c| closure_helper(c)).flatten().collect() over a list of seed lists:
\* an Err yields no element, an Ok yields the members of its set.
\* acc: the collected set, n: queries made, failed: the collaborator failed a query
RECURSIVE FlatMapClosures(_, _, _, _)
FlatMapClosures(st, lists, outcomes, k) ==
    IF k > Len(lists) THEN st
    ELSE IF lists[k] = <<>>                 \* a root whose store_path is an Err
         THEN FlatMapClosures(st, lists, outcomes, k + 1)
    ELSE LET r == closure_helper(st.cache, lists[k], outcomes[k])
         IN  FlatMapClosures(
                [cache |-> r.cache,
                 acc |-> IF r.ok THEN st.acc \cup r.value ELSE st.acc,
                 n |-> IF r.queried THEN st.n + 1 ELSE st.n,
                 failed |-> st.failed \/ (r.queried /\ outcomes[k] # "ok")],
                lists, outcomes, k + 1)

FlatMapStart(cache) == [cache |-> cache, acc |-> {}, n |-> 0, failed |-> FALSE]

\* StorePath::full_closure
full_closure(cache, paths, outcomes) ==
    FlatMapClosures(FlatMapStart(cache), chunks(paths, CLOSURE_LOOKUP_CHUNK_SIZE), outcomes, 1)

\* GCRoot::closure per root: store_path.clone().and_then(|sp| sp.closure());
\* a root is the store path it resolves to, or 0 when it is inaccessible
RootSeeds(roots) == [k \in DOMAIN roots |-> IF roots[k] = 0 THEN <<>> ELSE <<roots[k]>>]

\* GCRoot::full_closure
gcroot_full_closure(cache, roots, outcomes) ==
    FlatMapClosures(FlatMapStart(cache), RootSeeds(roots), outcomes, 1)

SeqsUpTo(S, n) == UNION {[1..m -> S] : m \in 0..n}

\* StorePath::closure
Closure ==
    /\ calls < MaxCalls
    /\ \E p \in StorePaths, o \in Outcomes :
          LET r == closure_helper(closureCache, <<p>>, o)
          IN  /\ closureCache' = r.cache
              /\ calls' = IF r.queried THEN calls + 1 ELSE calls
              /\ closRes' = [op |-> "closure", paths |-> <<p>>, queried |-> r.queried,
                             failed |-> r.queried /\ o # "ok", ok |-> r.ok, value |-> r.value]
    /\ UNCHANGED deps
    /\ UNCHANGED <<markerVars, chanVars, sizeVars, cmdVars, cacheVars, pathVars, rootVars, confVars, discVars, tidyVars>>

\* StorePath::closure_size: self.closure().unwrap_or_default() is what gets measured
ClosureSize ==
    /\ calls < MaxCalls
    /\ \E p \in StorePaths, o \in Outcomes :
          LET r == closure_helper(closureCache, <<p>>, o)
          IN  /\ closureCache' = r.cache
              /\ calls' = IF r.queried THEN calls + 1 ELSE calls
              /\ closRes' = [op |-> "closure_size", paths |-> <<p>>, queried |-> r.queried,
                             failed |-> r.queried /\ o # "ok", ok |-> TRUE,
                             value |-> IF r.ok THEN r.value ELSE {}]
    /\ UNCHANGED deps
    /\ UNCHANGED <<markerVars, chanVars, sizeVars, cmdVars, cacheVars, pathVars, rootVars, confVars, discVars, tidyVars>>

\* StorePath::full_closure
FullClosure ==
    /\ calls < MaxCalls
    /\ \E paths \in SeqsUpTo(StorePaths, MaxSeeds) :
         \E outcomes \in [1..Len(chunks(paths, CLOSURE_LOOKUP_CHUNK_SIZE)) -> AggregateOutcomes] :
          LET r == full_closure(closureCache, paths, outcomes)
          IN  /\ closureCache' = r.cache
              /\ calls' = calls + r.n
              /\ closRes' = [op |-> "full_closure", paths |-> paths, queried |-> r.n > 0,
                             failed |-> r.failed, ok |-> TRUE, value |-> r.acc]
    /\ UNCHANGED deps
    /\ UNCHANGED <<markerVars, chanVars, sizeVars, cmdVars, cacheVars, pathVars, rootVars, confVars, discVars, tidyVars>>

\* GCRoot::full_closure: Ok(full_closure)
GCRootFullClosure ==
    /\ calls < MaxCalls
    /\ \E roots \in SeqsUpTo({0} \cup StorePaths, MaxRoots) :
         \E outcomes \in [1..Len(roots) -> AggregateOutcomes] :
          LET r == gcroot_full_closure(closureCache, roots, outcomes)
          IN  /\ closureCache' = r.cache
              /\ calls' = calls + r.n
              /\ closRes' = [op |-> "gcroot_full_closure", paths |-> roots,
                             queried |-> r.n > 0, failed |-> r.failed,
                             ok |-> TRUE, value |-> r.acc]
    /\ UNCHANGED deps
    /\ UNCHANGED <<markerVars, chanVars, sizeVars, cmdVars, cacheVars, pathVars, rootVars, confVars, discVars, tidyVars>>

\* GCRoot::full_closure_size: Self::full_closure(roots)? is what gets measured
GCRootFullClosureSize ==
    /\ calls < MaxCalls
    /\ \E roots \in SeqsUpTo({0} \cup StorePaths, MaxRoots) :
         \E outcomes \in [1..Len(roots) -> AggregateOutcomes] :
          LET r == gcroot_full_closure(closureCache, roots, outcomes)
          IN  /\ closureCache' = r.cache
              /\ calls' = calls + r.n
              /\ closRes' = [op |-> "gcroot_full_closure_size", paths |-> roots,
                             queried |-> r.n > 0, failed |-> r.failed,
                             ok |-> TRUE, value |-> r.acc]
    /\ UNCHANGED deps
    /\ UNCHANGED <<markerVars, chanVars, sizeVars, cmdVars, cacheVars, pathVars, rootVars, confVars, discVars, tidyVars>>

\* the dependency graphs: a store path refers to paths built before it
DepGraphs == {d \in [StorePaths -> SUBSET StorePaths] : \A p \in StorePaths : \A q \in d[p] : q < p}

InitClosure ==
    /\ deps \in DepGraphs
    /\ closureCache = EmptyMap
    /\ calls = 0
    /\ closRes = [op |-> "none", paths |-> <<>>, queried |-> FALSE, failed |-> FALSE,
                  ok |-> TRUE, value |-> {}]
    /\ MarkerIdle /\ ChanIdle /\ SizeIdle /\ CmdIdle /\ CacheIdle /\ PathIdle /\ RootIdle /\ ConfIdle /\ DiscIdle /\ TidyIdle

NextClosure ==
    \/ Closure
    \/ ClosureSize
    \/ FullClosure
    \/ GCRootFullClosure
    \/ GCRootFullClosureSize

SpecClosure == InitClosure /\ [][NextClosure]_vars

(***************************************************************************)
(* Claims on the closure resolver                                          *)
(***************************************************************************)
\* the last operation was StorePath::closure and its collaborator query failed
ClosureFailed == closRes.op = "closure" /\ closRes.failed

\* C9: when the closure query fails, StorePath::closure returns an error and
\* inserts nothing into the closure cache, so that the next closure call with
\* the same input queries the collaborator again.
C9_FailureIsErrorAndNotCached ==
    /\ [](ClosureFailed =>
            /\ ~closRes.ok
            /\ lookup(closureCache, KeyHash(closRes.paths)) = {})
    /\ [][(ClosureFailed /\ closRes'.op = "closure" /\ closRes'.paths = closRes.paths)
            => (closRes'.queried /\ calls' = calls + 1)]_vars

\* the query for one path has failed twice in a row, and nothing got cached
C9_Witness ==
    /\ ClosureFailed
    /\ calls = 2
    /\ closureCache = EmptyMap

AggregateOps ==
    {"closure_size", "full_closure", "gcroot_full_closure", "gcroot_full_closure_size"}

\* C10: the aggregate closure operations report an error whenever the closure
\* query fails for any chunk or any accessible root.
C10_AggregatesPropagateFailure ==
    (closRes.op \in AggregateOps /\ closRes.failed) => ~closRes.ok

\* the last operation resolved a closure and every query it made succeeded
ClosureSucceeded == closRes.op \in {"closure", "full_closure"} /\ ~closRes.failed

\* C11: closure resolution is memoized: when a closure call has succeeded, the next
\* call with the same input path list returns the identical set and does not
\* invoke the collaborator (the call count does not grow).
C11_RepeatedClosureHitsCache ==
    [][(ClosureSucceeded /\ closRes'.op = closRes.op /\ closRes'.paths = closRes.paths)
          => /\ calls' = calls
             /\ ~closRes'.queried
             /\ closRes'.ok
             /\ closRes'.value = closRes.value]_vars

\* a closure call answered from the cache: one query was made, by the call before it
C11_Witness ==
    /\ closRes.op = "closure"
    /\ ~closRes.queried
    /\ calls = 1
    /\ closureCache # EmptyMap
    /\ Cardinality(closRes.value) > 1

\* the union of the closures of the individual seeds
UnionOfClosures(seeds) == UNION {Requisites(deps, {p}) : p \in seeds}

\* C12: when the collaborator succeeds, StorePath::full_closure over chunks returns
\* the closure of one query over all seeds, which is the union of the closures of
\* the individual seeds.
C12_ChunkedEqualsUnchunked ==
    (closRes.op = "full_closure" /\ ~closRes.failed) =>
        /\ closRes.value = Requisites(deps, Range(closRes.paths))
        /\ closRes.value = UnionOfClosures(Range(closRes.paths))

\* a full_closure over more seeds than one chunk holds, whose last chunk adds a path
\* that the first chunk does not reach
C12_Witness ==
    /\ closRes.op = "full_closure"
    /\ ~closRes.failed
    /\ Len(closRes.paths) > CLOSURE_LOOKUP_CHUNK_SIZE
    /\ closRes.value #
          Requisites(deps, Range(SubSeq(closRes.paths, 1, CLOSURE_LOOKUP_CHUNK_SIZE)))

\* C17: starting from freshly discovered generations, after apply_markers a
\* generation is marked if and only if a negative criterion applies to it
\* (age >= remove_older, or not among the keep_max highest-numbered), no positive
\* criterion applies to it (age < keep_newer, or among the keep_min
\* highest-numbered), it is not the highest-numbered generation and it is not the
\* active generation.
C17_MarkedIffCondemnedAndUnprotected ==
    applied = 1 =>
        \A k \in DOMAIN generations :
            generations[k].marker <=>
                /\ Condemned(generations, config, k)
                /\ ~Protected(generations, config, k)
                /\ k # Len(generations)
                /\ k # ActiveIndex(generations, link)

\* after one apply_markers: one generation is marked, one is marked by a negative
\* criterion and saved by a positive one, and the active generation is not the newest
C17_Witness ==
    /\ applied = 1
    /\ \E k \in DOMAIN generations : generations[k].marker
    /\ \E k \in DOMAIN generations :
          /\ Condemned(generations, config, k)
          /\ Protected(generations, config, k)
    /\ ActiveIndex(generations, link) \notin {0, Len(generations)}
    /\ Condemned(generations, config, ActiveIndex(generations, link))
    /\ ~Protected(generations, config, ActiveIndex(generations, link))

\* a path the walk from root gets to: every directory from root down to its parent
\* can be read
RECURSIVE WalkReaches(_, _, _)
WalkReaches(f, root, p) ==
    \/ p = root
    \/ /\ f.parent[p] # 0
       /\ f.meta[f.parent[p]].res = "ok"
       /\ f.meta[f.parent[p]].ftype = "dir"
       /\ f.meta[f.parent[p]].readable
       /\ WalkReaches(f, root, f.parent[p])

\* the readable regular files of the tree at root
ReadableFiles(f, root) ==
    {p \in DOMAIN f.meta :
        f.meta[p].res = "ok" /\ f.meta[p].ftype = "file" /\ WalkReaches(f, root, p)}

\* the sum of the lengths of a set of files, name by name
RECURSIVE SumFileLens(_, _)
SumFileLens(f, files) ==
    IF files = {} THEN 0
    ELSE LET p == CHOOSE x \in files : TRUE
         IN  InodeLen(InoKeyOf(f, p)) + SumFileLens(f, files \ {p})

\* C20: in dir_size_naive and in the deduplicated walk, what cannot be read
\* contributes zero and does not abort the walk: the total includes every
\* readable regular file of the tree, those counted before the unreadable
\* directory was reached included.
C20_UnreadableContributesZero ==
    /\ \A p \in DOMAIN sizeRes.naive :
          sizeRes.naive[p] = SumFileLens(fs, ReadableFiles(fs, p))
    /\ \A p \in DOMAIN sizeRes.hl :
          sizeRes.hl[p] = SumLen({InoKeyOf(fs, q) : q \in ReadableFiles(fs, p)})

\* C20 for the deduplicated walk alone, which skips what it cannot read
C20_DedupWalkSkipsUnreadable ==
    \A p \in DOMAIN sizeRes.hl :
        sizeRes.hl[p] = SumLen({InoKeyOf(fs, q) : q \in ReadableFiles(fs, p)})

(***************************************************************************)
(* The gc command                                                          *)
(***************************************************************************)
GIB == 8            \* stands for the 1024 * 1024 * 1024 of commands/gc.rs, scaled to the model

\* what --bigger and --quota can be given as
BiggerOptions == {None, 1, 2}
QuotaOptions == {None, 50, 75}

\* what Store::size() measures, and what files::get_blkdev_size(&Store::blkdev()?)
\* answers: None when the device or its size cannot be determined
StoreSizes == 0..(2 * GIB + 1)
BlkdevSizes == {None, 2 * GIB, 4 * GIB}

\* let percentage = size * 100 / blkdev_size;
Percentage(size, blkdev_size) == (size * 100) \div blkdev_size

\* mutant of BelowBigger: a store of exactly the threshold size is collected
BelowBigger_Strict(size, bigger) == size < bigger * GIB

\* if size <= bigger * GIB { return Ok(()) }
BelowBigger(size, bigger) == size <= bigger * GIB

\* if percentage <= quota { return Ok(()) }
BelowQuota(size, blkdev_size, quota) == Percentage(size, blkdev_size) <= quota

\* the outcome of GCCommand::run before the collector is considered
GCStop(result) ==
    [result |-> result, asked |-> FALSE, collected |-> FALSE, max_freed |-> None]

\* let max_freed = if self.modest { ... } else { None }: ok is FALSE where the
\* block returns Err
MaxFreed(self, size, blkdev_size) ==
    IF ~self.modest THEN [ok |-> TRUE, value |-> None]
    ELSE IF self.bigger # None THEN [ok |-> TRUE, value |-> size - self.bigger * GIB]
    ELSE IF self.quota # None
         THEN IF blkdev_size = None THEN [ok |-> FALSE, value |-> None]
              ELSE [ok |-> TRUE, value |-> size - (self.quota * blkdev_size) \div 100]
    ELSE [ok |-> FALSE, value |-> None]

\* GCCommand::run; answer is what the user replies to ask(), gc_ok whether
\* `nix-store --gc` succeeds
GCCommand_run(self, size, blkdev_size, answer, gc_ok) ==
    IF self.bigger # None /\ BelowBigger(size, self.bigger) THEN GCStop("ok")
    ELSE IF self.quota # None /\ blkdev_size = None THEN GCStop("err")
    ELSE IF self.quota # None /\ BelowQuota(size, blkdev_size, self.quota) THEN GCStop("ok")
    ELSE LET max_freed == MaxFreed(self, size, blkdev_size)
         IN  IF ~max_freed.ok THEN GCStop("err")
             ELSE IF self.dry_run
                  THEN [result |-> "ok", asked |-> FALSE, collected |-> FALSE,
                        max_freed |-> max_freed.value]
             ELSE IF ~self.interactive \/ answer
                  THEN [result |-> IF gc_ok THEN "ok" ELSE "err",
                        asked |-> self.interactive, collected |-> TRUE,
                        max_freed |-> max_freed.value]
             ELSE [result |-> "ok", asked |-> TRUE, collected |-> FALSE,
                   max_freed |-> max_freed.value]

\* the record of one run of the command
GCRunRecord(self, size, blkdev_size, answer, gc_ok) ==
    LET r == GCCommand_run(self, size, blkdev_size, answer, gc_ok)
    IN  [ran |-> TRUE, self |-> self, size |-> size, blkdev_size |-> blkdev_size,
         result |-> r.result, asked |-> r.asked, answer |-> r.asked /\ answer,
         collected |-> r.collected, max_freed |-> r.max_freed]

\* nix-sweep gc: one run of the command
GCRun ==
    /\ ~gcRes.ran
    /\ \E size \in StoreSizes, blkdev_size \in BlkdevSizes, answer, gc_ok \in BOOLEAN :
          gcRes' = GCRunRecord(gcRes.self, size, blkdev_size, answer, gc_ok)
    /\ UNCHANGED <<profiles, cleanout, removed>>
    /\ UNCHANGED <<markerVars, chanVars, sizeVars, closVars, cacheVars, pathVars, rootVars, confVars, discVars, tidyVars>>

\* the command line of nix-sweep gc
InitGC ==
    /\ \E interactive, dry_run, modest \in BOOLEAN :
         \E bigger \in BiggerOptions, quota \in QuotaOptions :
            gcRes = [NoGCRun EXCEPT
                        !.self = GCCommand(interactive, dry_run, bigger, quota, modest)]
    /\ profiles = <<>>
    /\ cleanout = [pc |-> "idle", k |-> 0, dry_run |-> FALSE, answers |-> <<>>]
    /\ removed = <<>>
    /\ MarkerIdle /\ ChanIdle /\ SizeIdle /\ ClosIdle /\ CacheIdle /\ PathIdle /\ RootIdle /\ ConfIdle /\ DiscIdle /\ TidyIdle

NextGC == GCRun

SpecGC == InitGC /\ [][NextGC]_vars

\* every configured threshold is exceeded by what the run measured
ThresholdsExceeded(r) ==
    /\ r.self.bigger # None => r.size > r.self.bigger * GIB
    /\ r.self.quota # None =>
          /\ r.blkdev_size # None
          /\ Percentage(r.size, r.blkdev_size) > r.self.quota

\* a configured threshold is known not to be exceeded
ThresholdNotExceeded(r) ==
    \/ r.self.bigger # None /\ r.size <= r.self.bigger * GIB
    \/ /\ r.self.quota # None
       /\ r.blkdev_size # None
       /\ Percentage(r.size, r.blkdev_size) <= r.self.quota

\* C15: the gc command invokes the collector only if every configured threshold
\* is exceeded (store size strictly greater than BIGGER GiB, integer percentage
\* strictly greater than QUOTA); otherwise it returns success without
\* collecting. It never collects in dry-run mode, and in interactive mode only
\* after the user confirmed.
C15_CollectsOnlyAboveThresholds ==
    gcRes.ran =>
        /\ gcRes.collected =>
              /\ ThresholdsExceeded(gcRes)
              /\ ~gcRes.self.dry_run
              /\ gcRes.self.interactive => (gcRes.asked /\ gcRes.answer)
        /\ ThresholdNotExceeded(gcRes) => (gcRes.result = "ok" /\ ~gcRes.collected)

\* the collector ran after a confirmation, with both thresholds set and exceeded,
\* the quota by one percent step only
C15_Witness ==
    /\ gcRes.ran
    /\ gcRes.collected
    /\ gcRes.self.interactive
    /\ gcRes.self.bigger # None
    /\ gcRes.self.quota # None
    /\ gcRes.size = gcRes.self.bigger * GIB + 1
    /\ Percentage(gcRes.size, gcRes.blkdev_size) > gcRes.self.quota
    /\ Percentage(gcRes.size - 1, gcRes.blkdev_size) <= gcRes.self.quota

(***************************************************************************)
(* The cleanout command                                                    *)
(***************************************************************************)
MaxProfiles == 2        \* profiles named on the command line
MaxProfileGens == 2     \* generations of each of them

\* Option<bool> of ConfigPreset.interactive / ConfigPreset.gc
OptBool == {"None", "Some(true)", "Some(false)"}

\* the presets the command runs with, after load and override_with
CleanoutPresets ==
    [keep_min : {None, 1}, keep_max : {None, 1}, keep_newer : {None},
     remove_older : {None, 1}, interactive : OptBool, gc : OptBool,
     gc_bigger : {None, 1}, gc_quota : {None}]

\* Profile::from_str(&profile_str) fails
NoProfile == [ok |-> FALSE, generations |-> <<>>, link |-> None]

\* what Profile::from_str(&profile_str) can find: generations 1..n, an old or a new
\* one each, and the live link
FoundProfiles ==
    UNION {
        {[ok |-> TRUE,
          generations |-> [k \in 1..n |-> NewGeneration(k, ages[k])],
          link |-> l] : ages \in [1..n -> {0, MaxAge}], l \in {None} \cup (1..n)}
        : n \in 0..MaxProfileGens}

ProfileArgs == FoundProfiles \cup {NoProfile}

\* the store sizes the gc step of cleanout meets
CleanoutStoreSizes == {GIB, GIB + 1}

\* let interactive = config.interactive.is_none() || config.interactive == Some(true);
Interactive(cfg) == cfg.interactive = "None" \/ cfg.interactive = "Some(true)"

\* mutant of ToRemove: every generation is removed
ToRemove_All(gens) == [k \in 1..Len(gens) |-> gens[k].number]

\* remove_generations: if generation.marked() { resolve(generation.remove()) }
ToRemove(gens) ==
    LET marked == SelectSeq(gens, LAMBDA g : g.marker)
    IN  [k \in 1..Len(marked) |-> marked[k].number]

\* remove_generations: the delete-generation calls issued; fail is the call at
\* which nix-env fails and resolve() exits the process (0: none fails)
remove_generations(gens, fail) ==
    LET nums == ToRemove(gens)
    IN  IF fail = 0 \/ fail > Len(nums)
        THEN [calls |-> nums, exit |-> FALSE]
        ELSE [calls |-> SubSeq(nums, 1, fail), exit |-> TRUE]

\* the calls of one profile, tagged with the index of the profile
Tagged(k, nums) == [j \in 1..Len(nums) |-> <<k, nums[j]>>]

\* where run goes after profile k
AfterProfile(k) == IF k = Len(profiles) THEN "gc" ELSE "profiles"

\* CleanoutCommand::run, one turn of `for profile_str in self.profiles`
CleanoutProfile ==
    /\ cleanout.pc = "profiles"
    /\ LET k == cleanout.k
           profile == profiles[k]
       IN  IF ~profile.ok
           THEN /\ cleanout' = [cleanout EXCEPT !.pc = "err"]
                /\ UNCHANGED <<profiles, removed>>
           ELSE LET marked == apply_markers(profile.generations, config, profile.link)
                IN  /\ profiles' = [profiles EXCEPT ![k].generations = marked]
                    /\ \E confirmation \in BOOLEAN, fail \in 0..MaxProfileGens :
                         IF cleanout.dry_run
                         THEN /\ removed' = removed
                              /\ cleanout' = [cleanout EXCEPT
                                    !.pc = AfterProfile(k), !.k = k + 1,
                                    !.answers = Append(@, "none")]
                         ELSE IF Interactive(config) /\ ~confirmation
                         THEN /\ removed' = removed
                              /\ cleanout' = [cleanout EXCEPT
                                    !.pc = AfterProfile(k), !.k = k + 1,
                                    !.answers = Append(@, "no")]
                         ELSE LET r == remove_generations(marked, fail)
                              IN  /\ removed' = removed \o Tagged(k, r.calls)
                                  /\ cleanout' = [cleanout EXCEPT
                                        !.pc = IF r.exit THEN "exit" ELSE AfterProfile(k),
                                        !.k = k + 1,
                                        !.answers = Append(@, IF Interactive(config)
                                                              THEN "yes" ELSE "none")]
    /\ UNCHANGED <<config, generations, link, applied, gcRes>>
    /\ UNCHANGED <<chanVars, sizeVars, closVars, cacheVars, pathVars, rootVars, confVars, discVars, tidyVars>>

\* CleanoutCommand::run, `if config.gc == Some(true) { gc_cmd.run()? }`
CleanoutGC ==
    /\ cleanout.pc = "gc"
    /\ IF config.gc = "Some(true)"
       THEN \E size \in CleanoutStoreSizes, answer, gc_ok \in BOOLEAN :
               LET gc_cmd == GCCommand(Interactive(config), cleanout.dry_run,
                                       config.gc_bigger, config.gc_quota, FALSE)
                   r == GCRunRecord(gc_cmd, size, None, answer, gc_ok)
               IN  /\ gcRes' = r
                   /\ cleanout' = [cleanout EXCEPT
                                      !.pc = IF r.result = "ok" THEN "done" ELSE "err"]
       ELSE /\ cleanout' = [cleanout EXCEPT !.pc = "done"]
            /\ UNCHANGED gcRes
    /\ UNCHANGED <<profiles, removed>>
    /\ UNCHANGED <<markerVars, chanVars, sizeVars, closVars, cacheVars, pathVars, rootVars, confVars, discVars, tidyVars>>

\* the command line and the loaded preset
InitCleanout ==
    /\ \E n \in 1..MaxProfiles : profiles \in [1..n -> ProfileArgs]
    /\ config \in CleanoutPresets
    /\ \E dry_run \in BOOLEAN :
          cleanout = [pc |-> "profiles", k |-> 1, dry_run |-> dry_run, answers |-> <<>>]
    /\ removed = <<>>
    /\ gcRes = NoGCRun
    /\ generations = <<>> /\ link = None /\ applied = 0
    /\ ChanIdle /\ SizeIdle /\ ClosIdle /\ CacheIdle /\ PathIdle /\ RootIdle /\ ConfIdle /\ DiscIdle /\ TidyIdle

NextCleanout == CleanoutProfile \/ CleanoutGC

SpecCleanout == InitCleanout /\ [][NextCleanout]_vars

\* the generations apply_markers leaves marked in the profile at index k
LeftMarked(k) ==
    Marked(apply_markers(Fresh(profiles[k].generations), config, profiles[k].link))

\* C14: cleanout issues a delete-generation call only for generations that
\* apply_markers left marked; it issues none under --dry-run, and none for a
\* profile whose confirmation the user declined; under --dry-run the garbage
\* collector is not run either.
C14_DeletesOnlyMarkedAndConfirmed ==
    /\ \A j \in DOMAIN removed :
          /\ removed[j][1] \in 1..(cleanout.k - 1)
          /\ removed[j][2] \in LeftMarked(removed[j][1])
          /\ cleanout.answers[removed[j][1]] # "no"
          /\ Interactive(config) => cleanout.answers[removed[j][1]] = "yes"
    /\ cleanout.dry_run => (removed = <<>> /\ ~gcRes.collected)

\* the command finished after the user declined one profile that had a marked
\* generation and confirmed another, of which one generation was deleted and one kept
C14_Witness ==
    /\ cleanout.pc = "done"
    /\ \E k \in DOMAIN profiles :
          cleanout.answers[k] = "no" /\ LeftMarked(k) # {}
    /\ \E k \in DOMAIN profiles :
          /\ cleanout.answers[k] = "yes"
          /\ Len(profiles[k].generations) > Cardinality(LeftMarked(k))
          /\ \E j \in DOMAIN removed : removed[j][1] = k

(***************************************************************************)
(* The bounded Cache                                                       *)
(***************************************************************************)
CACHE_SIZE_LIMIT == 2   \* stands for the 500000 of caching.rs, scaled to the model
MaxKeys == 4            \* keys
MaxInserts == 5         \* insert calls

CacheKeys == 1..MaxKeys
CacheValues == {"a", "b"}

\* Cache::lookup: "None", or the value stored under the key
Cache_lookup(st, key) ==
    IF ~st.allocated THEN "None"
    ELSE IF key \in DOMAIN st.map THEN st.map[key].value
    ELSE "None"

\* let total_age: u64 = cache.values().map(|v| v.1).sum();
RECURSIVE TotalAge(_)
TotalAge(map) ==
    IF DOMAIN map = {} THEN 0
    ELSE LET k == CHOOSE x \in DOMAIN map : TRUE
         IN  map[k].time + TotalAge(MapRemove(map, k))

\* let avg_age = total_age / (cache.len() as u64);
AvgAge(map) == TotalAge(map) \div Cardinality(DOMAIN map)

\* mutant of Retain: the entries at or above the mean are the ones kept
Retain_AtOrAbove(map, avg_age) ==
    [k \in {j \in DOMAIN map : map[j].time >= avg_age} |-> map[k]]

\* cache.retain(|_, v| v.1 < avg_age)
Retain(map, avg_age) ==
    [k \in {j \in DOMAIN map : map[j].time < avg_age} |-> map[k]]

\* mutant of Cache_insert: the value of a key the map holds is not replaced
Cache_insert_KeepsOld(st, counter, key, value) ==
    IF st.allocated
    THEN [store |-> [allocated |-> TRUE,
                     map |-> IF key \in DOMAIN st.map THEN st.map
                             ELSE MapInsert(st.map, key, [value |-> value, time |-> counter])],
          time_counter |-> counter + 1, stamp |-> counter, pass |-> {}]
    ELSE [store |-> [allocated |-> TRUE,
                     map |-> MapInsert(EmptyMap, key, [value |-> value, time |-> 0])],
          time_counter |-> 0, stamp |-> 0, pass |-> {}]

\* Cache::insert: the store and the counter it leaves, the timestamp it stamped
\* (the value fetch_add returned, or the literal 0 of the first insert) and the
\* keys its retain pass removed
Cache_insert(st, counter, key, value) ==
    IF st.allocated
    THEN LET cache == IF Cardinality(DOMAIN st.map) > CACHE_SIZE_LIMIT
                      THEN Retain(st.map, AvgAge(st.map))
                      ELSE st.map
         IN  [store |-> [allocated |-> TRUE,
                         map |-> MapInsert(cache, key, [value |-> value, time |-> counter])],
              time_counter |-> counter + 1,
              stamp |-> counter,
              pass |-> DOMAIN st.map \ DOMAIN cache]
    ELSE [store |-> [allocated |-> TRUE,
                     map |-> MapInsert(EmptyMap, key, [value |-> value, time |-> 0])],
          time_counter |-> 0,
          stamp |-> 0,
          pass |-> {}]

\* a call of lookup(&key)
CacheLookup ==
    /\ \E key \in CacheKeys :
          cacheRes' = [op |-> "lookup", key |-> key, value |-> "None",
                       result |-> Cache_lookup(store, key), before |-> store,
                       pass |-> {}]
    /\ UNCHANGED <<store, time_counter, cacheHistory>>
    /\ UNCHANGED <<markerVars, chanVars, sizeVars, closVars, cmdVars, pathVars, rootVars, confVars, discVars, tidyVars>>

\* a call of insert(key, value)
CacheInsert ==
    /\ cacheHistory.inserts < MaxInserts
    /\ \E key \in CacheKeys, value \in CacheValues :
          LET r == Cache_insert(store, time_counter, key, value)
              gone == IF store.allocated THEN DOMAIN store.map \ DOMAIN r.store.map ELSE {}
          IN  /\ store' = r.store
              /\ time_counter' = r.time_counter
              /\ cacheRes' = [op |-> "insert", key |-> key, value |-> value,
                              result |-> "None", before |-> store,
                              pass |-> r.pass]
              /\ cacheHistory' = [last |-> MapInsert(cacheHistory.last, key, value),
                                  evicted |-> (cacheHistory.evicted \cup gone) \ {key},
                                  inserts |-> cacheHistory.inserts + 1,
                                  stamps |-> Append(cacheHistory.stamps, r.stamp)]
    /\ UNCHANGED <<markerVars, chanVars, sizeVars, closVars, cmdVars, pathVars, rootVars, confVars, discVars, tidyVars>>

\* Cache::new()
InitCache ==
    /\ store = [allocated |-> FALSE, map |-> EmptyMap]
    /\ time_counter = 0
    /\ cacheRes = [op |-> "none", key |-> 0, value |-> "None", result |-> "None",
                   before |-> [allocated |-> FALSE, map |-> EmptyMap], pass |-> {}]
    /\ cacheHistory = [last |-> EmptyMap, evicted |-> {}, inserts |-> 0, stamps |-> <<>>]
    /\ MarkerIdle /\ ChanIdle /\ SizeIdle /\ ClosIdle /\ CmdIdle /\ PathIdle /\ RootIdle /\ ConfIdle /\ DiscIdle /\ TidyIdle

NextCache == CacheLookup \/ CacheInsert

SpecCache == InitCache /\ [][NextCache]_vars

\* the last operation was an insert that found the map larger than the threshold
InsertFoundOversize ==
    /\ cacheRes.op = "insert"
    /\ cacheRes.before.allocated
    /\ Cardinality(DOMAIN cacheRes.before.map) > CACHE_SIZE_LIMIT

\* C18: an insert that finds the map larger than the size threshold evicts every
\* entry whose timestamp is below the mean timestamp, keeps the entries whose
\* timestamp is at or above the mean, and then inserts the new entry.
C18_EvictsBelowMeanKeepsRest ==
    InsertFoundOversize =>
        LET before == cacheRes.before.map
            kept == {k \in DOMAIN before : before[k].time >= AvgAge(before)}
        IN  /\ DOMAIN store.map = kept \cup {cacheRes.key}
            /\ \A k \in kept \ {cacheRes.key} : store.map[k] = before[k]
            /\ store.map[cacheRes.key].value = cacheRes.value

\* C19: lookup(k) returns Some(v) only if v is the value of the most recent
\* insert(k, v) and k has not been evicted since; for a key that was never
\* inserted it returns None, also while the map is not allocated; the first
\* insert allocates the map and stores its entry.
C19_LookupReturnsLastInsert ==
    /\ cacheRes.op = "lookup" =>
          /\ cacheRes.result # "None" =>
                /\ cacheRes.key \in DOMAIN cacheHistory.last
                /\ cacheRes.result = cacheHistory.last[cacheRes.key]
                /\ cacheRes.key \notin cacheHistory.evicted
          /\ cacheRes.key \notin DOMAIN cacheHistory.last => cacheRes.result = "None"
    /\ (cacheRes.op = "insert" /\ ~cacheRes.before.allocated) =>
          /\ store.allocated
          /\ DOMAIN store.map = {cacheRes.key}
          /\ store.map[cacheRes.key].value = cacheRes.value

\* a lookup hit on an entry stamped by the counter, after an eviction pass has
\* removed a key and some key was inserted more than once
C19_Witness ==
    /\ cacheRes.op = "lookup"
    /\ cacheRes.result # "None"
    /\ cacheHistory.evicted # {}
    /\ \E k \in DOMAIN store.map :
          /\ k = cacheRes.key
          /\ store.map[k].time > 0
          /\ cacheHistory.inserts > Cardinality(DOMAIN cacheHistory.last)

(***************************************************************************)
(* Store path validation                                                   *)
(***************************************************************************)
HashLen == 2        \* stands for the 32 of is_valid_path, scaled to the model

\* pub const NIX_STORE: &str = "/nix/store", as path components
NIX_STORE == <<"/", "nix", "store">>

\* the characters of a file name: a lowercase letter, a digit, an uppercase letter,
\* a dash, and a lowercase letter outside ASCII (two bytes in UTF-8)
Chars == {"a", "7", "A", "-", "e_acute"}

is_ascii_alphanumeric(c) == c \in {"a", "7", "A"}
is_lowercase(c) == c \in {"a", "e_acute"}
is_numeric(c) == c = "7"

\* the bytes a character takes in UTF-8
Utf8Len(c) == IF c = "e_acute" THEN 2 ELSE 1

\* str::len: the length of a name in bytes
RECURSIVE StrLen(_)
StrLen(chars) == IF chars = <<>> THEN 0 ELSE Utf8Len(Head(chars)) + StrLen(Tail(chars))

\* the directories a path can lie in: the store root, directories inside it,
\* directories outside it, and the store root spelt relative
DirPrefixes ==
    {NIX_STORE, NIX_STORE \o <<"x">>, NIX_STORE \o <<"..">>, <<"/", "nix">>,
     <<"/", "nix", "storex">>, <<"/", "tmp">>, <<"nix", "store">>, <<"/">>}

\* the final components: "normal" names, ".." and names that are not UTF-8
FileNames ==
    UNION {[1..n -> Chars] : n \in 0..(HashLen + 1)}

Paths ==
    {[dirs |-> ds, kind |-> "normal", chars |-> cs] : ds \in DirPrefixes, cs \in FileNames}
      \cup {[dirs |-> ds, kind |-> k, chars |-> <<"a", "7", "-">>] :
                ds \in DirPrefixes, k \in {"dotdot", "nonutf8"}}

\* path.file_name().and_then(|n| n.to_str()): a name, or nothing
HasFileName(pth) == pth.kind = "normal" /\ pth.chars # <<>>

\* path.starts_with(NIX_STORE): component by component
StartsWith(pth, base) ==
    /\ Len(pth.dirs) >= Len(base)
    /\ SubSeq(pth.dirs, 1, Len(base)) = base

\* file_name.chars().take(32).all(...)
StartsWithHash(chars) ==
    LET n == IF Len(chars) < HashLen THEN Len(chars) ELSE HashLen
    IN  \A k \in 1..n :
            is_ascii_alphanumeric(chars[k]) /\ (is_lowercase(chars[k]) \/ is_numeric(chars[k]))

\* Store::is_valid_path
is_valid_path(pth) ==
    IF ~HasFileName(pth) THEN FALSE
    ELSE LET is_in_store == StartsWith(pth, NIX_STORE)
             has_sufficient_length == StrLen(pth.chars) > HashLen
             starts_with_hash == StartsWithHash(pth.chars)
         IN  is_in_store /\ has_sufficient_length /\ starts_with_hash

\* StorePath::new: Ok unless !Store::is_valid_path(&path)
StorePath_new(pth) == is_valid_path(pth)

\* a call of Store::is_valid_path(&path)
IsValidPath ==
    /\ pathRes.op = "none"
    /\ pathRes' = [op |-> "is_valid_path", valid |-> is_valid_path(pathArg), ok |-> TRUE]
    /\ UNCHANGED pathArg
    /\ UNCHANGED <<markerVars, chanVars, sizeVars, closVars, cmdVars, cacheVars, rootVars, confVars, discVars, tidyVars>>

\* a call of StorePath::new(path)
StorePathNew ==
    /\ pathRes.op = "none"
    /\ pathRes' = [op |-> "new", valid |-> is_valid_path(pathArg), ok |-> StorePath_new(pathArg)]
    /\ UNCHANGED pathArg
    /\ UNCHANGED <<markerVars, chanVars, sizeVars, closVars, cmdVars, cacheVars, rootVars, confVars, discVars, tidyVars>>

InitPath ==
    /\ pathArg \in Paths
    /\ pathRes = [op |-> "none", valid |-> FALSE, ok |-> FALSE]
    /\ MarkerIdle /\ ChanIdle /\ SizeIdle /\ ClosIdle /\ CmdIdle /\ CacheIdle /\ RootIdle /\ ConfIdle /\ DiscIdle /\ TidyIdle

NextPath == IsValidPath \/ StorePathNew

SpecPath == InitPath /\ [][NextPath]_vars

\* the path is an immediate child of the store root
ImmediateChild(pth) == pth.kind = "normal" /\ pth.dirs = NIX_STORE

\* the name starts with a hash: HashLen characters, lowercase ASCII letters or digits
HashPrefixed(chars) ==
    /\ Len(chars) >= HashLen
    /\ \A k \in 1..HashLen : chars[k] \in {"a", "7"}

\* C16: Store::is_valid_path accepts a path if and only if it is an immediate
\* child of the store root whose final component starts with a hash of lowercase
\* ASCII letters and digits; StorePath::new returns an error for exactly the
\* rejected paths.
C16_ValidIffImmediateChildWithHash ==
    pathRes.op # "none" =>
        /\ pathRes.valid <=> (ImmediateChild(pathArg) /\ HashPrefixed(pathArg.chars))
        /\ pathRes.op = "new" => (pathRes.ok <=> pathRes.valid)

\* what the code accepts: a path anywhere below the store root whose final
\* component is a hash followed by at least one more byte
C16_ValidIffBelowStoreWithLongerName ==
    pathRes.op # "none" =>
        /\ pathRes.valid <=>
              /\ pathArg.kind = "normal"
              /\ StartsWith(pathArg, NIX_STORE)
              /\ HashPrefixed(pathArg.chars)
              /\ Len(pathArg.chars) > HashLen
        /\ pathRes.op = "new" => (pathRes.ok <=> pathRes.valid)

(***************************************************************************)
(* GC roots: the scan of the roots directory, filter_roots, aggregation     *)
(***************************************************************************)
MaxLinks == 2       \* links under GC_ROOTS_DIR

\* GCRoot.age: unknown, or one of two ages around the thresholds
RootAges == {None, 0, MaxAge}

\* the older / newer options of filter_roots
AgeOptions == {None, 1}

\* a link under GC_ROOTS_DIR:
\*   read        "ok" | "err"          fs::read_link(location)
\*   exists      "yes" | "no" | "err"  fs::exists(target); "no" is a dangling root
\*   store_path  the store path the target resolves to; 0 when
\*               StorePath::from_symlink(target) fails
\*   is_profile, is_current   what the target path is classified as
\*   age         the age of the target link; None when it cannot be determined
Link(read, exists, store_path, is_profile, is_current, age) ==
    [read |-> read, exists |-> exists, store_path |-> store_path,
     is_profile |-> is_profile, is_current |-> is_current, age |-> age]

\* what the target of a link is classified as: is_profile, is_current
Classes == {<<FALSE, FALSE>>, <<TRUE, FALSE>>, <<FALSE, TRUE>>}

\* the links the directory can hold: dangling ones of every class and age (a target
\* that does not exist resolves to no store path), independent roots of the store
\* paths, a target that is no store path, a target whose existence cannot be
\* determined, and a link that cannot be read
Links ==
    {Link("ok", "no", 0, c[1], c[2], a) : c \in Classes, a \in RootAges}
      \cup {Link("ok", "yes", p, FALSE, FALSE, a) : p \in StorePaths, a \in RootAges}
      \cup {Link("ok", "yes", 0, FALSE, FALSE, 0),
            Link("ok", "err", 0, FALSE, FALSE, None),
            Link("err", "err", 0, FALSE, FALSE, None)}

\* the states of the directory: it cannot be walked, or it holds some links
GCRootDirs ==
    {[readable |-> FALSE, links |-> <<>>]}
      \cup {[readable |-> TRUE, links |-> ls] : ls \in UNION {[1..n -> Links] : n \in 0..MaxLinks}}

\* GCRoot::new(link_path) for the target of the link at position k of the directory
GCRoot_new(k, l) ==
    [link |-> k, store_path |-> l.store_path, age |-> l.age,
     is_profile |-> l.is_profile, is_current |-> l.is_current]

\* mutant of KeptByScan: dangling links are never dropped
KeptByScan_Always(l, include_missing) == TRUE

\* all_search_directory, the .filter(...) on the results of read_link
KeptByScan(l, include_missing) ==
    IF l.read = "ok"
    THEN include_missing \/ l.exists # "no"
    ELSE TRUE

\* GCRoot::all_search_directory
all_search_directory(dir, include_missing) ==
    LET kept == SelectSeq([k \in DOMAIN dir.links |-> [k |-> k, l |-> dir.links[k]]],
                          LAMBDA e : KeptByScan(e.l, include_missing))
    IN  IF ~dir.readable THEN [ok |-> FALSE, roots |-> <<>>]
        ELSE IF \E j \in DOMAIN kept : kept[j].l.read = "err"
             THEN [ok |-> FALSE, roots |-> <<>>]
        ELSE [ok |-> TRUE,
              roots |-> [j \in DOMAIN kept |-> GCRoot_new(kept[j].k, kept[j].l)]]

\* GCRoot::is_accessible
is_accessible(r) == r.store_path # 0

\* mutant of filter_roots: with newer set, a root of unknown age is dropped
filter_roots_NewerDropsUnknown(roots, include_profiles, include_current, include_inaccessible, older, newer) ==
    LET r1 == IF ~include_profiles
              THEN SelectSeq(roots, LAMBDA r : ~r.is_profile) ELSE roots
        r2 == IF ~include_current
              THEN SelectSeq(r1, LAMBDA r : ~r.is_current) ELSE r1
        r3 == IF ~include_inaccessible
              THEN SelectSeq(r2, LAMBDA r : is_accessible(r)) ELSE r2
        r4 == IF older # None
              THEN SelectSeq(r3, LAMBDA r : IF r.age # None THEN r.age > older ELSE TRUE)
              ELSE r3
        r5 == IF newer # None
              THEN SelectSeq(r4, LAMBDA r : IF r.age # None THEN r.age <= newer ELSE FALSE)
              ELSE r4
    IN  r5

\* GCRoot::filter_roots
filter_roots(roots, include_profiles, include_current, include_inaccessible, older, newer) ==
    LET r1 == IF ~include_profiles
              THEN SelectSeq(roots, LAMBDA r : ~r.is_profile) ELSE roots
        r2 == IF ~include_current
              THEN SelectSeq(r1, LAMBDA r : ~r.is_current) ELSE r1
        r3 == IF ~include_inaccessible
              THEN SelectSeq(r2, LAMBDA r : is_accessible(r)) ELSE r2
        r4 == IF older # None
              THEN SelectSeq(r3, LAMBDA r : IF r.age # None THEN r.age > older ELSE TRUE)
              ELSE r3
        r5 == IF newer # None
              THEN SelectSeq(r4, LAMBDA r : IF r.age # None THEN r.age <= newer ELSE TRUE)
              ELSE r4
    IN  r5

\* a call of GCRoot::all_search_directory(include_missing)
AllSearchDirectory ==
    /\ rootRes.op = "none"
    /\ \E include_missing \in BOOLEAN :
          LET r == all_search_directory(gcroots, include_missing)
          IN  /\ rootList' = r.roots
              /\ rootRes' = [NoRootOp EXCEPT !.op = "scan", !.ok = r.ok,
                                             !.include_missing = include_missing]
    /\ UNCHANGED gcroots
    /\ UNCHANGED <<markerVars, chanVars, sizeVars, closVars, cmdVars, cacheVars, pathVars, confVars, discVars, tidyVars>>

\* a call of GCRoot::filter_roots on the scanned roots
FilterRoots ==
    /\ rootRes.op = "scan"
    /\ rootRes.ok
    /\ \E include_profiles, include_current, include_inaccessible \in BOOLEAN :
         \E older, newer \in AgeOptions :
            /\ rootList' = filter_roots(rootList, include_profiles, include_current,
                                        include_inaccessible, older, newer)
            /\ rootRes' = [rootRes EXCEPT
                              !.op = "filter", !.input = rootList,
                              !.include_profiles = include_profiles,
                              !.include_current = include_current,
                              !.include_inaccessible = include_inaccessible,
                              !.older = older, !.newer = newer]
    /\ UNCHANGED gcroots
    /\ UNCHANGED <<markerVars, chanVars, sizeVars, closVars, cmdVars, cacheVars, pathVars, confVars, discVars, tidyVars>>

\* the store paths of a list of roots, 0 for an inaccessible one
StorePathsOf(roots) == [k \in DOMAIN roots |-> roots[k].store_path]

\* a call of GCRoot::full_closure(&roots) or GCRoot::full_closure_size(&roots) on
\* the roots at hand
RootsFullClosure ==
    /\ rootRes.op \in {"scan", "filter"}
    /\ rootRes.ok
    /\ \E outcomes \in [1..Len(rootList) -> AggregateOutcomes] :
         \E op \in {"gcroot_full_closure", "gcroot_full_closure_size"} :
          LET r == gcroot_full_closure(closureCache, StorePathsOf(rootList), outcomes)
          IN  /\ closureCache' = r.cache
              /\ calls' = calls + r.n
              /\ closRes' = [op |-> op, paths |-> StorePathsOf(rootList),
                             queried |-> r.n > 0, failed |-> r.failed,
                             ok |-> TRUE, value |-> r.acc]
    /\ rootRes' = [rootRes EXCEPT !.op = "aggregate"]
    /\ UNCHANGED <<gcroots, rootList, deps>>
    /\ UNCHANGED <<markerVars, chanVars, sizeVars, cmdVars, cacheVars, pathVars, confVars, discVars, tidyVars>>

\* the dependency graphs the aggregation runs over: none, or a chain
RootDepGraphs ==
    {[p \in StorePaths |-> {}], [p \in StorePaths |-> IF p > 1 THEN {p - 1} ELSE {}]}

InitRoots ==
    /\ gcroots \in GCRootDirs
    /\ rootList = <<>>
    /\ rootRes = NoRootOp
    /\ deps \in RootDepGraphs
    /\ closureCache = EmptyMap
    /\ calls = 0
    /\ closRes = [op |-> "none", paths |-> <<>>, queried |-> FALSE, failed |-> FALSE,
                  ok |-> TRUE, value |-> {}]
    /\ MarkerIdle /\ ChanIdle /\ SizeIdle /\ CmdIdle /\ CacheIdle /\ PathIdle /\ ConfIdle /\ DiscIdle /\ TidyIdle

NextRoots == AllSearchDirectory \/ FilterRoots \/ RootsFullClosure

SpecRoots == InitRoots /\ [][NextRoots]_vars

\* the root's link target no longer exists
Dangling(r) == gcroots.links[r.link].exists = "no"

\* the root passes the filters of filter_roots other than the accessibility one
PassesOtherFilters(r, o) ==
    /\ o.include_profiles \/ ~r.is_profile
    /\ o.include_current \/ ~r.is_current
    /\ o.older = None \/ r.age = None \/ r.age > o.older
    /\ o.newer = None \/ r.age = None \/ r.age <= o.newer

\* the scan returns a dangling root only under include_missing, and then as an
\* inaccessible root
DanglingScanned ==
    (rootRes.op = "scan" /\ rootRes.ok) =>
        \A r \in Range(rootList) :
            Dangling(r) => (rootRes.include_missing /\ ~is_accessible(r))

\* a dangling root adds nothing to the aggregate, the accessible roots are aggregated
DanglingNotAggregated ==
    (rootRes.op = "aggregate" /\ ~closRes.failed) =>
        /\ closRes.ok
        /\ closRes.value =
              Requisites(deps, {r.store_path : r \in {x \in Range(rootList) : ~Dangling(x)}}
                                  \ {0})

Unmarked(gens) == [k \in DOMAIN gens |-> [number |-> gens[k].number, age |-> gens[k].age]]

\* C30: apply_markers changes nothing but marker flags (the generation list, its
\* order, and the number and age of every generation stay), and it is
\* idempotent: a second application with the same configuration leaves the same
\* set of generations marked as the first.
C30_ApplyMarkersIdempotent ==
    [][applied' = applied + 1 =>
          /\ Unmarked(generations') = Unmarked(generations)
          /\ config' = config
          /\ applied >= 1 => Marked(generations') = Marked(generations)]_vars

\* apply_markers has run twice on a profile where it marks one generation and
\* protects another that a negative criterion applies to
C30_Witness ==
    /\ applied = 2
    /\ Marked(generations) # {}
    /\ \E k \in DOMAIN generations :
          /\ Condemned(generations, config, k)
          /\ Protected(generations, config, k)
          /\ ~generations[k].marker

\* producer i has run inner.insert(i, object)
Deposited(i) == i \in Producers /\ ppc[i] \in {"inserted", "notified", "done"}

\* C25: under any interleaving, get(i) returns only the value a put deposited
\* under the same index i, and removes it from the channel on return (the other
\* entries stay), so a deposited value is delivered to at most one get.
C25_GetReturnsOwnIndexAndRemoves ==
    [][Len(received') = Len(received) + 1 =>
          LET i == GetIndex(iter_counter)
          IN  /\ Deposited(i)
              /\ i \in DOMAIN inner
              /\ received'[Len(received')] = vals[i]
              /\ i \notin DOMAIN inner'
              /\ DOMAIN inner' = DOMAIN inner \ {i}
              /\ \A j \in DOMAIN inner' : inner'[j] = inner[j]]_vars

\* get(0) has returned while a later index, deposited before it with another
\* value, is still in the channel
C25_Witness ==
    /\ Len(received) = 1
    /\ \E j \in DOMAIN inner : j > 0 /\ inner[j] # received[1]
    /\ cpc = "next"

\* C26: after any sequence of inserts the map never holds more than
\* CACHE_SIZE_LIMIT + 1 entries, and every eviction pass (an insert that found
\* the map above the limit) removes at least one entry.
C26_CacheStaysBounded ==
    /\ Cardinality(DOMAIN store.map) <= CACHE_SIZE_LIMIT + 1
    /\ InsertFoundOversize =>
          /\ cacheRes.pass # {}
          /\ cacheRes.pass \subseteq DOMAIN cacheRes.before.map

\* an eviction pass has run on a full map for a key the map held, and the map
\* is back at the bound after it
C26_Witness ==
    /\ InsertFoundOversize
    /\ cacheRes.key \in DOMAIN cacheRes.before.map
    /\ cacheRes.pass # DOMAIN cacheRes.before.map
    /\ cacheHistory.inserts = MaxInserts

\* C27: starting from an empty cache no two insert calls stamp the same
\* timestamp, and a later insert stamps a strictly greater timestamp than any
\* earlier one.
C27_StampsStrictlyIncrease ==
    \A j, k \in DOMAIN cacheHistory.stamps :
        j < k => cacheHistory.stamps[j] < cacheHistory.stamps[k]

(***************************************************************************)
(* The key of the closure cache                                            *)
(***************************************************************************)
\* The store holds more paths than hasher.finish() has values: next to the
\* paths of StorePaths there is one whose hash word differs from that of path 1
\* by the range of the key.
KeyPaths == StorePaths \cup {1 + 65536}

KeyDepGraphs == {d \in [KeyPaths -> SUBSET KeyPaths] : \A p \in KeyPaths : \A q \in d[p] : q < p}

\* StorePath::closure on any path of the store
ClosureOfAny ==
    /\ calls < MaxCalls
    /\ \E p \in KeyPaths, o \in AggregateOutcomes :
          LET r == closure_helper(closureCache, <<p>>, o)
          IN  /\ closureCache' = r.cache
              /\ calls' = IF r.queried THEN calls + 1 ELSE calls
              /\ closRes' = [op |-> "closure", paths |-> <<p>>, queried |-> r.queried,
                             failed |-> r.queried /\ o # "ok", ok |-> r.ok, value |-> r.value]
    /\ UNCHANGED deps
    /\ UNCHANGED <<markerVars, chanVars, sizeVars, cmdVars, cacheVars, pathVars, rootVars, confVars, discVars, tidyVars>>

\* StorePath::full_closure on any paths of the store
FullClosureOfAny ==
    /\ calls < MaxCalls
    /\ \E paths \in SeqsUpTo(KeyPaths, CLOSURE_LOOKUP_CHUNK_SIZE) :
         \E outcomes \in [1..Len(chunks(paths, CLOSURE_LOOKUP_CHUNK_SIZE)) -> AggregateOutcomes] :
          LET r == full_closure(closureCache, paths, outcomes)
          IN  /\ closureCache' = r.cache
              /\ calls' = calls + r.n
              /\ closRes' = [op |-> "full_closure", paths |-> paths, queried |-> r.n > 0,
                             failed |-> r.failed, ok |-> TRUE, value |-> r.acc]
    /\ UNCHANGED deps
    /\ UNCHANGED <<markerVars, chanVars, sizeVars, cmdVars, cacheVars, pathVars, rootVars, confVars, discVars, tidyVars>>

InitClosureKeys ==
    /\ deps \in KeyDepGraphs
    /\ closureCache = EmptyMap
    /\ calls = 0
    /\ closRes = [op |-> "none", paths |-> <<>>, queried |-> FALSE, failed |-> FALSE,
                  ok |-> TRUE, value |-> {}]
    /\ MarkerIdle /\ ChanIdle /\ SizeIdle /\ CmdIdle /\ CacheIdle /\ PathIdle /\ RootIdle /\ ConfIdle /\ DiscIdle /\ TidyIdle

NextClosureKeys == ClosureOfAny \/ FullClosureOfAny

SpecClosureKeys == InitClosureKeys /\ [][NextClosureKeys]_vars

\* the last operation was answered from the cache alone
CacheHitOnly == closRes.op \in {"closure", "full_closure"} /\ closRes.ok /\ ~closRes.queried

\* C28: a closure-cache hit returns the closure of the path list that was
\* requested: two different path lists never share a cache entry, so the
\* memoized closure of another input is never returned.
C28_HitReturnsRequestedClosure ==
    CacheHitOnly => closRes.value = Requisites(deps, Range(closRes.paths))

(***************************************************************************)
(* Claims on the scan of the roots directory and on filter_roots           *)
(***************************************************************************)
\* the link is one the scan is to return: it can be read, and its target exists
\* or missing targets are asked for
ScanShouldReturn(l, include_missing) ==
    l.read = "ok" /\ (include_missing \/ l.exists # "no")

\* C21: the scan of the roots directory absorbs per-item failures: a link that
\* cannot be read or resolved never makes all_search_directory return an error,
\* and the roots found elsewhere in the directory are still returned.
C21_ScanAbsorbsItemFailures ==
    (rootRes.op = "scan" /\ gcroots.readable) =>
        /\ rootRes.ok
        /\ \A k \in DOMAIN gcroots.links :
              ScanShouldReturn(gcroots.links[k], rootRes.include_missing) =>
                  \E j \in DOMAIN rootList : rootList[j].link = k

\* the root satisfies every predicate of filter_roots under the options o
PassesFilters(r, o) ==
    /\ o.include_profiles \/ ~r.is_profile
    /\ o.include_current \/ ~r.is_current
    /\ o.include_inaccessible \/ is_accessible(r)
    /\ o.older = None \/ r.age = None \/ r.age > o.older
    /\ o.newer = None \/ r.age = None \/ r.age <= o.newer

MaxSetting == 2     \* largest value of a count or duration option

\* Option<usize> / Option<Duration>: unset, the resetting 0, or a value
Settings == {None} \cup 0..MaxSetting

\* the options override_with merges without a reset value or a consistency
\* check: all unset, or all set
Extras ==
    {[interactive |-> "None", gc |-> "None", gc_bigger |-> None, gc_quota |-> None,
      gc_modest |-> FALSE, generations |-> <<>>],
     [interactive |-> "Some(false)", gc |-> "Some(true)", gc_bigger |-> 1, gc_quota |-> 50,
      gc_modest |-> TRUE, generations |-> <<1>>]}

\* struct ConfigPreset
Preset(keep_min, keep_max, keep_newer, remove_older, e) ==
    [keep_min |-> keep_min, keep_max |-> keep_max,
     keep_newer |-> keep_newer, remove_older |-> remove_older,
     interactive |-> e.interactive, gc |-> e.gc, gc_bigger |-> e.gc_bigger,
     gc_quota |-> e.gc_quota, gc_modest |-> e.gc_modest, generations |-> e.generations]

Presets ==
    {Preset(a, b, c, d, e) : a \in Settings, b \in Settings, c \in Settings, d \in Settings,
                             e \in Extras}

\* ConfigPreset::validate: TRUE for Ok(())
validate(p) ==
    /\ ~(p.keep_min # None /\ p.keep_max # None /\ p.keep_min > p.keep_max)
    /\ ~(p.keep_newer # None /\ p.remove_older # None /\ p.keep_newer > p.remove_older)

ValidPresets == {p \in Presets : validate(p)}

\* match (self.x, other.x) of an option that 0 resets
MergeResettable(mine, theirs) ==
    IF mine = None /\ theirs = None THEN None
    ELSE IF theirs = 0 THEN None
    ELSE IF theirs # None THEN theirs
    ELSE mine

\* match (self.x, other.x) of the other numeric options
MergeOption(mine, theirs) == IF theirs # None THEN theirs ELSE mine

\* match (self.x, other.x) of an Option<bool>
MergeOptBool(mine, theirs) == IF theirs # "None" THEN theirs ELSE mine

\* a > b on two Options that are both Some
BothSomeAndGreater(a, b) == a # None /\ b # None /\ a > b

\* ConfigPreset::override_with: it panics, or returns the merged preset
override_with(self, other) ==
    LET keep_min0 == MergeResettable(self.keep_min, other.keep_min)
        keep_max0 == MergeResettable(self.keep_max, other.keep_max)
        keep_newer0 == MergeResettable(self.keep_newer, other.keep_newer)
        remove_older0 == MergeResettable(self.remove_older, other.remove_older)
        count_clash == BothSomeAndGreater(keep_min0, keep_max0)
        count_panic == count_clash /\ other.keep_min # None /\ other.keep_max # None
        keep_min == IF count_clash /\ other.keep_min = None THEN keep_max0 ELSE keep_min0
        keep_max == IF count_clash /\ other.keep_min # None /\ other.keep_max = None
                    THEN keep_min0 ELSE keep_max0
        age_clash == BothSomeAndGreater(keep_newer0, remove_older0)
        \* the second branch tests other.keep_max, as the code does
        age_panic == age_clash /\ other.keep_newer # None /\ other.keep_max # None
        keep_newer == IF age_clash /\ other.keep_newer = None THEN remove_older0 ELSE keep_newer0
        remove_older == IF age_clash /\ other.keep_newer # None /\ other.keep_max = None
                        THEN keep_newer0 ELSE remove_older0
    IN  [panicked |-> count_panic \/ age_panic,
         preset |->
            [keep_min |-> keep_min, keep_max |-> keep_max,
             keep_newer |-> keep_newer, remove_older |-> remove_older,
             interactive |-> MergeOptBool(self.interactive, other.interactive),
             gc |-> MergeOptBool(self.gc, other.gc),
             gc_bigger |-> MergeOption(self.gc_bigger, other.gc_bigger),
             gc_quota |-> MergeOption(self.gc_quota, other.gc_quota),
             gc_modest |-> self.gc_modest \/ other.gc_modest,
             generations |-> other.generations]]

\* ConfigPreset::override_with_opt
override_with_opt(self, given, other) ==
    IF given THEN override_with(self, other)
    ELSE [panicked |-> FALSE, preset |-> self]

\* stands for the absent preset of override_with_opt(None): every option unset
UnsetPreset ==
    Preset(None, None, None, None,
           [interactive |-> "None", gc |-> "None", gc_bigger |-> None, gc_quota |-> None,
            gc_modest |-> FALSE, generations |-> <<>>])

\* a call of override_with_opt on the presets at hand
OverrideWithOpt ==
    /\ overrideRes.op = "none"
    /\ LET r == override_with_opt(presetArgs.base, presetArgs.given, presetArgs.other)
       IN  overrideRes' = [op |-> IF presetArgs.given THEN "override_with" ELSE "clone",
                           panicked |-> r.panicked, preset |-> r.preset]
    /\ UNCHANGED presetArgs
    /\ UNCHANGED <<markerVars, chanVars, sizeVars, closVars, cmdVars, cacheVars, pathVars, rootVars, discVars, tidyVars>>

\* two presets that passed validate(), or one and no overriding preset
InitConfig ==
    /\ presetArgs \in
          {[base |-> b, given |-> TRUE, other |-> o] : b \in ValidPresets, o \in ValidPresets}
            \cup {[base |-> b, given |-> FALSE, other |-> UnsetPreset] : b \in ValidPresets}
    /\ overrideRes = [op |-> "none", panicked |-> FALSE, preset |-> UnsetPreset]
    /\ MarkerIdle /\ ChanIdle /\ SizeIdle /\ ClosIdle /\ CmdIdle /\ CacheIdle /\ PathIdle /\ RootIdle /\ DiscIdle /\ TidyIdle

NextConfig == OverrideWithOpt

SpecConfig == InitConfig /\ [][NextConfig]_vars

\* C29: override_with applied to two presets that each pass validate() never
\* panics and returns a preset that passes validate(), whatever the overriding
\* preset sets, leaves unset or resets with 0.
C29_OverrideNeverPanicsAndStaysValid ==
    overrideRes.op = "override_with" =>
        /\ ~overrideRes.panicked
        /\ validate(overrideRes.preset)

\* whenever override_with returns, the preset it returns passes validate()
C29_ReturnedPresetIsValid ==
    (overrideRes.op = "override_with" /\ ~overrideRes.panicked) => validate(overrideRes.preset)

(***************************************************************************)
(* Generation discovery: Profile::new                                      *)
(***************************************************************************)
MaxEntries == 3     \* entries of the profile's parent directory

\* the name of the profile under construction
ProfileName == "system"

\* an entry of the directory:
\*   entry_ok  FALSE when read_dir yields an Err for it
\*   tokens    its file name, split at '-'
\*   utf8      FALSE when the name is not valid UTF-8
\*   meta      None when fs::symlink_metadata / modified() fails, else the age
DirEntry(entry_ok, tokens, utf8, meta) ==
    [entry_ok |-> entry_ok, tokens |-> tokens, utf8 |-> utf8, meta |-> meta]

\* the entries the directory can hold: generation links of the profile (two of
\* them with the same number), one whose metadata cannot be read, malformed
\* names, a name with an invalid byte after "link", the link of another
\* profile, the profile link itself, and an entry read_dir fails on
DirEntries ==
    {DirEntry(TRUE, <<"system", "1", "link">>, TRUE, 1),
     DirEntry(TRUE, <<"system", "2", "link">>, TRUE, 1),
     DirEntry(TRUE, <<"system", "+2", "link">>, TRUE, 1),
     DirEntry(TRUE, <<"system", "3", "link">>, TRUE, None),
     DirEntry(TRUE, <<"system", "x", "link">>, TRUE, 1),
     DirEntry(TRUE, <<"system", "1">>, TRUE, 1),
     DirEntry(TRUE, <<"system", "1", "lnk">>, TRUE, 1),
     DirEntry(TRUE, <<"system", "4", "link_xFF">>, FALSE, 1),
     DirEntry(TRUE, <<"other", "1", "link">>, TRUE, 1),
     DirEntry(TRUE, <<"system">>, TRUE, 1),
     DirEntry(FALSE, <<"system", "5", "link">>, TRUE, 1)}

\* the listings of the directory, in the order read_dir yields them: the names
\* of a directory are distinct
Listings ==
    {ls \in SeqsUpTo(DirEntries, MaxEntries) :
        \A j, k \in DOMAIN ls : j # k => ls[j].tokens # ls[k].tokens}

ProfileDirs ==
    {[exists |-> x, readable |-> r, entries |-> ls] :
        x \in {"yes", "no", "err"}, r \in BOOLEAN, ls \in Listings}

\* str::parse::<usize>: None when the token is no number; a leading '+' is accepted
ParseUsize(token) ==
    CASE token = "1" -> 1
      [] token = "2" -> 2
      [] token = "+2" -> 2
      [] token = "3" -> 3
      [] token = "4" -> 4
      [] token = "5" -> 5
      [] OTHER -> None

\* e.file_name().to_str().map(|n| n.starts_with(&profile_prefix)).unwrap_or(false)
MatchesPrefix(e, name) == e.utf8 /\ Len(e.tokens) >= 2 /\ e.tokens[1] = name

\* Generation::new_from_direntry
new_from_direntry(name, e) ==
    LET tokens == <<"">> \o Tail(e.tokens)      \* suffix.split('-')
    IN  IF e.tokens[1] # name                   \* strip_prefix(name) is None
        THEN [ok |-> FALSE, number |-> 0, age |-> 0, marker |-> FALSE]
        ELSE IF Len(tokens) # 3 \/ tokens[3] # "link"
        THEN [ok |-> FALSE, number |-> 0, age |-> 0, marker |-> FALSE]
        ELSE IF ParseUsize(tokens[2]) = None
        THEN [ok |-> FALSE, number |-> 0, age |-> 0, marker |-> FALSE]
        ELSE IF e.meta = None
        THEN [ok |-> FALSE, number |-> 0, age |-> 0, marker |-> FALSE]
        ELSE [ok |-> TRUE, number |-> ParseUsize(tokens[2]), age |-> e.meta, marker |-> FALSE]

\* one step of the stable sort: g goes behind the elements that are not greater
InsertByNumber(sorted, g) ==
    LET k == Cardinality({j \in DOMAIN sorted : sorted[j].number <= g.number})
    IN  SubSeq(sorted, 1, k) \o <<g>> \o SubSeq(sorted, k + 1, Len(sorted))

\* generations.sort(): Ord for Generation compares the numbers
RECURSIVE SortGenerations(_, _)
SortGenerations(sorted, rest) ==
    IF rest = <<>> THEN sorted
    ELSE SortGenerations(InsertByNumber(sorted, Head(rest)), Tail(rest))

\* Profile::new: .map(|e| Generation::new_from_direntry(&name, &e))
Discovered(entries, name) ==
    [k \in DOMAIN entries |-> new_from_direntry(name, entries[k])]

\* Profile::new: "ok" with the generations, "err", or "panic" (unwrap of an Err)
Profile_new(dir, name) ==
    LET listed == SelectSeq(dir.entries, LAMBDA e : e.entry_ok)        \* .flatten()
        matching == SelectSeq(listed, LAMBDA e : MatchesPrefix(e, name))
        results == Discovered(matching, name)
    IN  IF dir.exists = "err" THEN [status |-> "err", generations |-> <<>>]
        ELSE IF dir.exists = "no" THEN [status |-> "err", generations |-> <<>>]
        ELSE IF ~dir.readable THEN [status |-> "err", generations |-> <<>>]
        ELSE IF \E k \in DOMAIN results : ~results[k].ok
             THEN [status |-> "panic", generations |-> <<>>]
        ELSE [status |-> "ok",
              generations |-> SortGenerations(<<>>,
                                [k \in DOMAIN results |->
                                    [number |-> results[k].number, age |-> results[k].age,
                                     marker |-> results[k].marker]])]

\* a call of Profile::new(parent, name)
ProfileNew ==
    /\ profileRes.op = "none"
    /\ LET r == Profile_new(profileDir, ProfileName)
       IN  profileRes' = [op |-> "new", status |-> r.status, generations |-> r.generations]
    /\ UNCHANGED profileDir
    /\ UNCHANGED <<markerVars, chanVars, sizeVars, closVars, cmdVars, cacheVars, pathVars, rootVars, confVars, tidyVars>>

InitDiscovery ==
    /\ profileDir \in ProfileDirs
    /\ profileRes = [op |-> "none", status |-> "none", generations |-> <<>>]
    /\ MarkerIdle /\ ChanIdle /\ SizeIdle /\ ClosIdle /\ CmdIdle /\ CacheIdle /\ PathIdle /\ RootIdle /\ ConfIdle /\ TidyIdle

NextDiscovery == ProfileNew

SpecDiscovery == InitDiscovery /\ [][NextDiscovery]_vars

\* the name of the entry starts with `<name>-`
NamePrefixed(e, name) == Len(e.tokens) >= 2 /\ e.tokens[1] = name

\* the name of the entry is `<name>-<number>-link` with a parseable number
GenerationLinkName(e, name) ==
    /\ Len(e.tokens) = 3
    /\ e.tokens[1] = name
    /\ ParseUsize(e.tokens[2]) # None
    /\ e.tokens[3] = "link"

\* an entry the directory lists that claims to be a generation of the profile
\* and is none, or whose link metadata cannot be read
MalformedEntry(e, name) ==
    /\ e.entry_ok
    /\ NamePrefixed(e, name)
    /\ ~GenerationLinkName(e, name) \/ e.meta = None

SortedByNumber(gens) ==
    \A j, k \in DOMAIN gens : j < k => gens[j].number <= gens[k].number

\* C23: generation discovery is all-or-nothing: if the directory holds an entry
\* whose name starts with `<name>-` and is not `<name>-<number>-link` with a
\* parseable number, or whose link metadata cannot be read, Profile::new does
\* not return a Profile (it fails, by an error or a panic); when it returns
\* one, its generations are sorted ascending by number.
C23_DiscoveryIsAllOrNothing ==
    profileRes.op = "new" =>
        /\ (\E k \in DOMAIN profileDir.entries : MalformedEntry(profileDir.entries[k], ProfileName))
              => profileRes.status # "ok"
        /\ profileRes.status = "ok" => SortedByNumber(profileRes.generations)

\* the same for names that are valid UTF-8, which is where discovery does fail
C23_Utf8MalformedEntryFails ==
    profileRes.op = "new" =>
        /\ (\E k \in DOMAIN profileDir.entries :
               profileDir.entries[k].utf8 /\ MalformedEntry(profileDir.entries[k], ProfileName))
              => profileRes.status # "ok"
        /\ profileRes.status = "ok" => SortedByNumber(profileRes.generations)

(***************************************************************************)
(* The tidyup-gc-roots command                                             *)
(***************************************************************************)
\* the links the command meets: roots of a store path of every class, with a
\* known and an unknown age, a dangling link, a target that is no store path,
\* and a link that cannot be read
TidyLinks ==
    {Link("ok", "yes", 1, c[1], c[2], a) : c \in Classes, a \in {None, MaxAge}}
      \cup {Link("ok", "no", 0, FALSE, FALSE, 0),
            Link("ok", "yes", 0, FALSE, FALSE, 0),
            Link("err", "err", 0, FALSE, FALSE, None)}

TidyDirs ==
    {[readable |-> FALSE, links |-> <<>>]}
      \cup {[readable |-> TRUE, links |-> ls] : ls \in SeqsUpTo(TidyLinks, MaxLinks)}

\* one step of a stable sort by r.link()
InsertByLink(sorted, r) ==
    LET k == Cardinality({j \in DOMAIN sorted : sorted[j].link <= r.link})
    IN  SubSeq(sorted, 1, k) \o <<r>> \o SubSeq(sorted, k + 1, Len(sorted))

\* r.age().cloned().unwrap_or(Duration::MAX)
AgeOrMax(r) == IF r.age = None THEN MaxAge + 1 ELSE r.age

\* one step of a stable sort by Reverse(age)
InsertByAgeDesc(sorted, r) ==
    LET k == Cardinality({j \in DOMAIN sorted : AgeOrMax(sorted[j]) >= AgeOrMax(r)})
    IN  SubSeq(sorted, 1, k) \o <<r>> \o SubSeq(sorted, k + 1, Len(sorted))

RECURSIVE SortByLink(_, _)
SortByLink(sorted, rest) ==
    IF rest = <<>> THEN sorted
    ELSE SortByLink(InsertByLink(sorted, Head(rest)), Tail(rest))

RECURSIVE SortByAgeDesc(_, _)
SortByAgeDesc(sorted, rest) ==
    IF rest = <<>> THEN sorted
    ELSE SortByAgeDesc(InsertByAgeDesc(sorted, Head(rest)), Tail(rest))

\* mutant of RemovesRoot: the answer of the user is not looked at
RemovesRoot_IgnoresAnswer(r, force, answer) == is_accessible(r)

\* the loop body of run: the root is skipped when its store path is an Err,
\* and removed under --force or after the user said yes
RemovesRoot(r, force, answer) ==
    IF ~is_accessible(r) THEN FALSE
    ELSE force \/ answer

\* run, up to the loop: the scan, the two sorts and filter_roots
TidyupStart ==
    /\ tidy.pc = "start"
    /\ \E force, include_profiles, include_current, include_missing, exclude_inaccessible \in BOOLEAN :
         \E older, newer \in AgeOptions :
            LET scan == all_search_directory(gcroots, include_missing)
                sorted == SortByAgeDesc(<<>>, SortByLink(<<>>, scan.roots))
            IN  /\ rootList' = IF scan.ok
                               THEN filter_roots(sorted, include_profiles, include_current,
                                                 ~exclude_inaccessible, older, newer)
                               ELSE <<>>
                /\ rootRes' = [op |-> "filter", ok |-> scan.ok,
                               include_missing |-> include_missing, input |-> sorted,
                               include_profiles |-> include_profiles,
                               include_current |-> include_current,
                               include_inaccessible |-> ~exclude_inaccessible,
                               older |-> older, newer |-> newer]
                /\ tidy' = [pc |-> IF scan.ok THEN "loop" ELSE "done", force |-> force,
                            next |-> 1, answers |-> <<>>]
    /\ UNCHANGED <<gcroots, unlinked>>
    /\ UNCHANGED <<markerVars, chanVars, sizeVars, closVars, cmdVars, cacheVars, pathVars, confVars, discVars>>

\* one round of the loop over the filtered roots; the answer counts without
\* --force only, and only for a root whose store path is accessible
TidyupRoot ==
    /\ tidy.pc = "loop"
    /\ tidy.next <= Len(rootList)
    /\ \E answer \in BOOLEAN :
          LET r == rootList[tidy.next]
              asked == ~tidy.force /\ is_accessible(r)
          IN  /\ asked \/ ~answer
              /\ unlinked' = IF RemovesRoot(r, tidy.force, answer)
                             THEN Append(unlinked, tidy.next) ELSE unlinked
              /\ tidy' = [tidy EXCEPT
                            !.next = tidy.next + 1,
                            !.answers = Append(tidy.answers,
                                               IF ~asked THEN "none"
                                               ELSE IF answer THEN "yes" ELSE "no")]
    /\ UNCHANGED <<gcroots, rootList, rootRes>>
    /\ UNCHANGED <<markerVars, chanVars, sizeVars, closVars, cmdVars, cacheVars, pathVars, confVars, discVars>>

\* the loop is over: run returns Ok(())
TidyupFinish ==
    /\ tidy.pc = "loop"
    /\ tidy.next > Len(rootList)
    /\ tidy' = [tidy EXCEPT !.pc = "done"]
    /\ UNCHANGED <<gcroots, rootList, rootRes, unlinked>>
    /\ UNCHANGED <<markerVars, chanVars, sizeVars, closVars, cmdVars, cacheVars, pathVars, confVars, discVars>>

InitTidyup ==
    /\ gcroots \in TidyDirs
    /\ rootList = <<>>
    /\ rootRes = NoRootOp
    /\ tidy = [pc |-> "start", force |-> FALSE, next |-> 1, answers |-> <<>>]
    /\ unlinked = <<>>
    /\ MarkerIdle /\ ChanIdle /\ SizeIdle /\ ClosIdle /\ CmdIdle /\ CacheIdle /\ PathIdle /\ ConfIdle /\ DiscIdle

NextTidyup == TidyupStart \/ TidyupRoot \/ TidyupFinish

SpecTidyup == InitTidyup /\ [][NextTidyup]_vars

\* C24: tidyup-gc-roots removes a root link only if the root passed
\* filter_roots and its store path is accessible; without --force only after
\* the user confirmed that root; and unless --include-profiles /
\* --include-current were given it never removes a profile-owned or a current
\* root.
C24_RemovesOnlyFilteredAccessibleConfirmed ==
    \A j \in Range(unlinked) :
        /\ j \in DOMAIN rootList
        /\ \E k \in DOMAIN rootRes.input : rootRes.input[k] = rootList[j]
        /\ PassesFilters(rootList[j], rootRes)
        /\ rootList[j].link \in DOMAIN gcroots.links
        /\ gcroots.links[rootList[j].link].store_path # 0
        /\ ~tidy.force => tidy.answers[j] = "yes"
        /\ ~rootRes.include_profiles => ~gcroots.links[rootList[j].link].is_profile
        /\ ~rootRes.include_current => ~gcroots.links[rootList[j].link].is_current

\* a run without --force is over: one root was removed after a yes, another
\* accessible root was kept after a no
C24_Witness ==
    /\ tidy.pc = "done"
    /\ ~tidy.force
    /\ unlinked # <<>>
    /\ \E j \in DOMAIN rootList :
          tidy.answers[j] = "no" /\ is_accessible(rootList[j]) /\ j \notin Range(unlinked)

\* a run with --force and --include-profiles removes a profile-owned root
\* without asking
C24_ForcedProfileRemoval ==
    /\ tidy.pc = "done"
    /\ tidy.force
    /\ \E j \in Range(unlinked) : rootList[j].is_profile /\ tidy.answers[j] = "none"

====
